---- MODULE Spec2Model ----
(***************************************************************************)
(* State-machine model of the data-visualization toolkit:                  *)
(*   - the Event Bus (src/src/core/EventManager.js),                       *)
(*   - the Chart Registry (src/src/charts/ChartFactory.js),                *)
(*   - the chart lifecycle (BaseChart, RealTimeChart, Heatmap, BarChart,   *)
(*     the stand-alone SVG charts) driven directly or through the          *)
(*     DataVisualizer (src/src/core/DataVisualizer.js).                    *)
(*   - two chart instances sharing one document body,                     *)
(*   - the DataProcessor (src/unnamed/part_002), detectOutliers and        *)
(*     calculateFrequencyDistribution of src/src/utils/statistics.js,      *)
(*   - the start-up of the application (src/unnamed/part_005),             *)
(*   - the DataVisualizer together with the Event Bus it was given.        *)
(* Each subsystem has its own specification (SpecEM, SpecEmit, SpecCF,     *)
(* SpecChart, SpecTips, SpecDP, SpecApp, SpecViz); a specification leaves  *)
(* the variables of the other subsystems alone.                            *)
(***************************************************************************)
EXTENDS Integers, Sequences, FiniteSets, TLC

VARIABLES
  \* ---- Event Bus
  events,      \* this.events: event name -> array of listeners
  calls,       \* invocation log of the last operation
  lastOp       \* the last bus operation and its arguments

emVars == <<events, calls, lastOp>>

VARIABLES
  \* ---- Chart Registry
  chartRegistry,  \* ChartFactory.chartRegistry: type name -> chart class
  regLog,         \* history of the register/unregister calls
  created,        \* classes of the instances create() has returned, in order
  cfOp            \* the last registry operation and its outcome

cfVars == <<chartRegistry, regLog, created, cfOp>>

VARIABLES
  \* ---- Chart lifecycle (one chart instance, its page, one visualizer)
  chart,       \* the chart instance: kind, options, data, timer, container
  page,        \* the document: container element, drawn elements, intervals
  chOp,        \* the last lifecycle operation and its outcome
  viz          \* the DataVisualizer: currentChart, currentData

chVars == <<chart, page, chOp, viz>>

VARIABLES
  \* ---- Two chart instances on one document
  insts,       \* instance -> chart
  pages,       \* instance -> the surface of its visualizer
  owned,       \* instance -> body-level tooltip nodes it created, still there
  tipOp        \* the last operation and the instance it was called on

tpVars == <<insts, pages, owned, tipOp>>

VARIABLES
  \* ---- DataProcessor / statistics: one call on one input
  dpData,      \* the caller's dataset (or what was passed in its place)
  dpBefore,    \* the same, as it was before the call
  dpCall,      \* the method called and its other arguments
  dpOut        \* whether it threw, and what it returned

dpVars == <<dpData, dpBefore, dpCall, dpOut>>

VARIABLES
  \* ---- Application start-up
  app          \* where initializeApp() is, and the state of each import()

apVars == <<app>>

VARIABLES
  \* ---- DataVisualizer with an Event Bus
  dv           \* svg, eventManager, observer, width; trace of the last call

dvVars == <<dv>>

vars == <<emVars, cfVars, chVars, tpVars, dpVars, apVars, dvVars>>

----------------------------------------------------------------------------
(* Bounds                                                                   *)
MaxListeners == 2     \* registrations held by the bus at one time
MaxOnce      == 1     \* once() wrappers registered at one time
MaxRegLog    == 3     \* register/unregister calls in one behaviour
MaxCreated   == 2     \* instances created in one behaviour
MaxTimers    == 3     \* setInterval calls in one behaviour
MaxElems     == 15    \* elements appended to one parent in one behaviour
SampleLen    == 2     \* points of a generated sample series
MaxRecs      == 2     \* records of a general input dataset
MaxVals      == 4     \* values of a single-field input dataset

----------------------------------------------------------------------------
(* Event names are strings, modelled as sequences of characters so that    *)
(* the template `${namespace}:${event}` and startsWith() are computed.     *)
NoName      == <<>>                              \* undefined / '' argument
DirectNames == { <<"x">>, <<"p", ":", "x">> }    \* names used on the bus itself
Prefixes    == { <<"p">>, <<"p", "q">> }         \* namespace(prefix)
NsEvents    == { <<"x">> }                       \* names used through a view
Payloads    == { 5, 6 }

Qualify(ns, e) == ns \o <<":">> \o e             \* `${namespace}:${event}`

AllNames == DirectNames \cup { Qualify(p, e) : p \in Prefixes, e \in NsEvents }

\* String.prototype.startsWith
StartsWith(name, pre) ==
  /\ Len(pre) <= Len(name)
  /\ SubSeq(name, 1, Len(pre)) = pre

(* User callbacks.  cb1 returns normally, cb2 throws, cb3 emits ReEvent     *)
(* again from inside the callback, guarded by a busy flag of its own.      *)
(* cb4 calls off(ReEvent, cb1) and cb5 calls on(ReEvent, cb1) from inside   *)
(* the callback, cb5 only while the bus holds few listeners.               *)
Cbs == { "cb1", "cb2", "cb3" }
ChangingCbs == { "cb1", "cb4", "cb5" }
Behaviour == [ cb1 |-> "plain", cb2 |-> "throw", cb3 |-> "reemit",
               cb4 |-> "off", cb5 |-> "on" ]
ReEvent == <<"x">>

\* A listener is a function object: a user callback (once = 0) or the
\* onceCallback closure number `once` created by once(ev, cb).
Fn(c) == [ cb |-> c, once |-> 0, ev |-> NoName ]
OnceFn(c, k, e) == [ cb |-> c, once |-> k, ev |-> e ]

Listeners == { Fn(c) : c \in Cbs }
             \cup { OnceFn(c, k, e) : c \in Cbs, k \in 1..MaxOnce, e \in AllNames }

NoOp == [ op |-> "init", name |-> NoName, arg |-> 0, threw |-> FALSE, removed |-> 0 ]

----------------------------------------------------------------------------
(* EventManager                                                             *)

Restrict(f, S) == [ k \in S |-> f[k] ]

\* variant: the new listener is put in front (unshift instead of push)
onEv_unshift(ev, e, l) ==
  LET withBucket == IF e \in DOMAIN ev THEN ev ELSE ev @@ (e :> <<>>)
  IN  [ withBucket EXCEPT ![e] = <<l>> \o @ ]

\* on(event, callback)
onEv(ev, e, l) ==
  LET withBucket == IF e \in DOMAIN ev THEN ev ELSE ev @@ (e :> <<>>)
  IN  [ withBucket EXCEPT ![e] = Append(@, l) ]

\* variant: the emptied bucket is kept
offEv_keepBucket(ev, e, l) ==
  IF e \notin DOMAIN ev THEN ev
  ELSE [ ev EXCEPT ![e] = SelectSeq(@, LAMBDA c : c # l) ]

\* off(event, callback)
offEv(ev, e, l) ==
  IF e \notin DOMAIN ev THEN ev
  ELSE LET kept == SelectSeq(ev[e], LAMBDA c : c # l)
       IN  IF Len(kept) = 0
           THEN Restrict(ev, DOMAIN ev \ {e})
           ELSE [ ev EXCEPT ![e] = kept ]

\* removeAllListeners(event)
removeAllEv(ev, e) ==
  IF e # NoName
  THEN Restrict(ev, DOMAIN ev \ {e})
  ELSE << >>

hasListeners(ev, e) == e \in DOMAIN ev /\ Len(ev[e]) > 0
listenerCount(ev, e) == IF e \in DOMAIN ev THEN Len(ev[e]) ELSE 0
eventNames(ev) == DOMAIN ev

\* variant: the prefix is matched without its ':' separator
nsRemoveAllEv_noColon(ev, ns, e) ==
  IF e # NoName
  THEN removeAllEv(ev, Qualify(ns, e))
  ELSE LET eventsToRemove == { n \in eventNames(ev) : StartsWith(n, ns) }
       IN  Restrict(ev, DOMAIN ev \ eventsToRemove)

\* namespace(ns).removeAllListeners(event)
nsRemoveAllEv(ev, ns, e) ==
  IF e # NoName
  THEN removeAllEv(ev, Qualify(ns, e))
  ELSE LET eventsToRemove == { n \in eventNames(ev) : StartsWith(n, ns \o <<":">>) }
       IN  Restrict(ev, DOMAIN ev \ eventsToRemove)

\* the number of registrations the bus holds
Total(ev) ==
  LET RECURSIVE Sum(_)
      Sum(S) == IF S = {} THEN 0
                ELSE LET n == CHOOSE n \in S : TRUE
                     IN  Len(ev[n]) + Sum(S \ {n})
  IN  Sum(DOMAIN ev)

(* emit() runs the listeners synchronously; a listener may change the bus  *)
(* and emit again, so the whole dispatch is computed over a run state.     *)
RunState(ev) ==
  [ events |-> ev, calls |-> <<>>, busy |-> {}, threw |-> FALSE ]

RECURSIVE emitRun(_, _, _, _), forEachRun(_, _, _, _, _)
RECURSIVE callFn(_, _, _, _), callUser(_, _, _, _)
RECURSIVE forEachRun_noCatch(_, _, _, _, _)
RECURSIVE emitRun_live(_, _, _, _), liveRun(_, _, _, _, _)

\* the user callback body
callUser(st, c, d, depth) ==
  CASE Behaviour[c] = "plain"  -> st
    [] Behaviour[c] = "throw"  -> [ st EXCEPT !.threw = TRUE ]
    [] Behaviour[c] = "reemit" ->
         IF c \in st.busy
         THEN st
         ELSE LET r == emitRun([ st EXCEPT !.busy = @ \cup {c} ], ReEvent, d, depth + 1)
              IN  [ r EXCEPT !.busy = @ \ {c} ]
    [] Behaviour[c] = "off"    ->
         [ st EXCEPT !.events = offEv(@, ReEvent, Fn("cb1")) ]
    [] Behaviour[c] = "on"     ->
         IF Total(st.events) > MaxListeners
         THEN st
         ELSE [ st EXCEPT !.events = onEv(@, ReEvent, Fn("cb1")) ]

\* one listener invocation: callback(data), or the onceCallback closure
callFn(st, l, d, depth) ==
  LET s1 == [ st EXCEPT !.calls = Append(@, [ fn |-> l, arg |-> d, depth |-> depth ]) ]
  IN  IF l.once = 0
      THEN callUser(s1, l.cb, d, depth)
      ELSE LET r == callUser(s1, l.cb, d, depth)
           IN  IF r.threw
               THEN r
               ELSE [ r EXCEPT !.events = offEv(r.events, l.ev, l) ]

\* variant: no try/catch around the callback, the first throw ends the loop
forEachRun_noCatch(st, arr, i, d, depth) ==
  IF i > Len(arr)
  THEN st
  ELSE LET r == callFn(st, arr[i], d, depth)
       IN  IF r.threw THEN r ELSE forEachRun_noCatch(r, arr, i + 1, d, depth)

\* this.events[event].forEach(callback => { try {...} catch {...} })
forEachRun(st, arr, i, d, depth) ==
  IF i > Len(arr)
  THEN st
  ELSE LET r == callFn(st, arr[i], d, depth)
       IN  forEachRun([ r EXCEPT !.threw = FALSE ], arr, i + 1, d, depth)

\* variant: the loop reads this.events[event] anew at every index
liveRun(st, e, i, d, depth) ==
  IF e \notin DOMAIN st.events \/ i > Len(st.events[e])
  THEN st
  ELSE LET r == callFn(st, st.events[e][i], d, depth)
       IN  liveRun([ r EXCEPT !.threw = FALSE ], e, i + 1, d, depth)
emitRun_live(st, e, d, depth) == liveRun(st, e, 1, d, depth)

\* emit(event, data)
emitRun(st, e, d, depth) ==
  IF e \notin DOMAIN st.events
  THEN st
  ELSE forEachRun(st, st.events[e], 1, d, depth)

----------------------------------------------------------------------------
(* Bus operations                                                           *)

EMOnly == UNCHANGED <<cfVars, chVars, tpVars, dpVars, apVars, dvVars>>

DoOn(name, c) ==
  /\ Total(events) < MaxListeners
  /\ events' = onEv(events, name, Fn(c))
  /\ calls' = <<>>
  /\ lastOp' = [ NoOp EXCEPT !.op = "on" ]

DoOff(name, c) ==
  /\ events' = offEv(events, name, Fn(c))
  /\ calls' = <<>>
  /\ lastOp' = [ NoOp EXCEPT !.op = "off" ]

DoEmit(name, d) ==
  LET r == emitRun(RunState(events), name, d, 0)
  IN  /\ events' = r.events
      /\ calls' = r.calls
      /\ lastOp' = [ NoOp EXCEPT !.op = "emit", !.name = name, !.arg = d, !.threw = r.threw ]

\* numbers of the onceCallback closures that are registered
LiveOnce(ev) ==
  { k \in 1..MaxOnce : \E n \in DOMAIN ev : \E i \in 1..Len(ev[n]) : ev[n][i].once = k }

(* once() makes a new closure; it is numbered with a number no registered  *)
(* closure bears, so that distinct registered closures are distinct.        *)
DoOnce(name, c) ==
  /\ Total(events) < MaxListeners
  /\ LiveOnce(events) # 1..MaxOnce
  /\ LET k == CHOOSE k \in 1..MaxOnce \ LiveOnce(events) :
                 \A j \in 1..MaxOnce \ LiveOnce(events) : k <= j
     IN  events' = onEv(events, name, OnceFn(c, k, name))
  /\ calls' = <<>>
  /\ lastOp' = [ NoOp EXCEPT !.op = "once" ]

On == \E n \in DirectNames, c \in Cbs : DoOn(n, c) /\ EMOnly

Off == \E n \in DirectNames, c \in Cbs : DoOff(n, c) /\ EMOnly

(* The closure returned by on(): () => { this.off(event, callback) }.  One  *)
(* exists for every callback that on() registered; it is called here while *)
(* the callback is registered (afterwards it is the no-op that Off is).    *)
Unsubscribe ==
  \E n \in AllNames, c \in Cbs :
    /\ n \in DOMAIN events
    /\ \E i \in 1..Len(events[n]) : events[n][i] = Fn(c)
    /\ events' = offEv(events, n, Fn(c))
    /\ calls' = <<>>
    /\ lastOp' = [ NoOp EXCEPT !.op = "unsubscribe", !.name = n ]
    /\ EMOnly

Emit == \E n \in DirectNames, d \in Payloads : DoEmit(n, d) /\ EMOnly

Once == \E n \in DirectNames, c \in Cbs : DoOnce(n, c) /\ EMOnly

RemoveAllListeners ==
  \E n \in DirectNames \cup {NoName} :
    /\ events' = removeAllEv(events, n)
    /\ calls' = <<>>
    /\ lastOp' = [ NoOp EXCEPT !.op = "removeAll" ]
    /\ EMOnly

\* the view returned by namespace(ns)
NsOn == \E p \in Prefixes, e \in NsEvents, c \in Cbs : DoOn(Qualify(p, e), c) /\ EMOnly

NsOff == \E p \in Prefixes, e \in NsEvents, c \in Cbs : DoOff(Qualify(p, e), c) /\ EMOnly

NsEmit == \E p \in Prefixes, e \in NsEvents, d \in Payloads : DoEmit(Qualify(p, e), d) /\ EMOnly

NsOnce == \E p \in Prefixes, e \in NsEvents, c \in Cbs : DoOnce(Qualify(p, e), c) /\ EMOnly

NsRemoveAllListeners ==
  \E p \in Prefixes, e \in NsEvents \cup {NoName} :
    /\ events' = nsRemoveAllEv(events, p, e)
    /\ calls' = <<>>
    /\ lastOp' = [ NoOp EXCEPT !.op = "nsRemoveAll", !.name = p,
                                 !.arg = IF e = NoName THEN 0 ELSE 1,
                                 !.removed = Total(events) - Total(events') ]
    /\ EMOnly

\* A bus whose callbacks change the registrations of the event being
\* emitted: on(), off() and emit() with the callbacks cb1, cb4 and cb5
OnChanging ==
  \E n \in DirectNames, c \in ChangingCbs : DoOn(n, c) /\ EMOnly

OffChanging ==
  \E n \in DirectNames, c \in ChangingCbs :
    /\ n \in DOMAIN events
    /\ DoOff(n, c)
    /\ EMOnly

EmitChanging ==
  \E n \in DirectNames, d \in Payloads : DoEmit(n, d) /\ EMOnly

NextEmit ==
  \/ OnChanging
  \/ OffChanging
  \/ EmitChanging

IdleEM ==
  /\ events = << >>
  /\ calls = <<>>
  /\ lastOp = NoOp

NextEM ==
  \/ On
  \/ Off
  \/ Unsubscribe
  \/ Emit
  \/ Once
  \/ RemoveAllListeners
  \/ NsOn
  \/ NsOff
  \/ NsEmit
  \/ NsOnce
  \/ NsRemoveAllListeners

----------------------------------------------------------------------------
(* ChartFactory                                                             *)

Types == { "bar", "pie" }
Ctors == { "BarChart", "LineChart" }
NoCtor == "none"

NoCfOp == [ op |-> "init", type |-> "bar", threw |-> FALSE ]

\* isRegistered(type)
isRegistered(reg, t) == t \in DOMAIN reg

\* variant: an existing registration is not overwritten
registerType_keepFirst(reg, t, k) == IF t \in DOMAIN reg THEN reg ELSE reg @@ (t :> k)

\* register(type, chartClass)
registerType(reg, t, k) == (t :> k) @@ reg

\* unregister(type)
unregisterType(reg, t) == Restrict(reg, DOMAIN reg \ {t})

\* create(type, options): the outcome, and the class instantiated
createChart(reg, t) ==
  IF ~isRegistered(reg, t)
  THEN [ threw |-> TRUE, class |-> NoCtor ]
  ELSE [ threw |-> FALSE, class |-> reg[t] ]

CFOnly == UNCHANGED <<emVars, chVars, tpVars, dpVars, apVars, dvVars>>

Register ==
  \E t \in Types, k \in Ctors :
    /\ Len(regLog) < MaxRegLog
    /\ chartRegistry' = registerType(chartRegistry, t, k)
    /\ regLog' = Append(regLog, [ op |-> "register", type |-> t, class |-> k ])
    /\ cfOp' = [ op |-> "register", type |-> t, threw |-> FALSE ]
    /\ UNCHANGED created
    /\ CFOnly

Unregister ==
  \E t \in Types :
    /\ Len(regLog) < MaxRegLog
    /\ chartRegistry' = unregisterType(chartRegistry, t)
    /\ regLog' = Append(regLog, [ op |-> "unregister", type |-> t, class |-> NoCtor ])
    /\ cfOp' = [ op |-> "unregister", type |-> t, threw |-> FALSE ]
    /\ UNCHANGED created
    /\ CFOnly

Create ==
  \E t \in Types :
    LET r == createChart(chartRegistry, t)
    IN  /\ r.threw \/ Len(created) < MaxCreated
        /\ created' = IF r.threw THEN created ELSE Append(created, r.class)
        /\ cfOp' = [ op |-> "create", type |-> t, threw |-> r.threw ]
        /\ UNCHANGED <<chartRegistry, regLog>>
        /\ CFOnly

IdleCF ==
  /\ chartRegistry = << >>
  /\ regLog = <<>>
  /\ created = <<>>
  /\ cfOp = NoCfOp

NextCF ==
  \/ Register
  \/ Unregister
  \/ Create

----------------------------------------------------------------------------
(* Application start-up (src/unnamed/part_005).  initializeApp() is one     *)
(* synchronous call made from the DOMContentLoaded handler.  It calls       *)
(* registerChartTypes(), which starts eight dynamic imports and attaches a  *)
(* then() callback to each; a promise callback is a job of its own and runs *)
(* only when no synchronous code is running.  The modules themselves may    *)
(* finish loading at any moment.                                            *)

\* import('./charts/X').then(module => ChartFactory.register(type, module.X))
AppImports ==
  [ bar |-> "BarChart", line |-> "LineChart", scatter |-> "ScatterPlot",
    pie |-> "PieChart", heatmap |-> "Heatmap", geographic |-> "GeographicMap",
    realtime |-> "RealTimeChart", webgl3d |-> "WebGL3DChart" ]
AppTypes == DOMAIN AppImports
InitialType == "bar"        \* ChartFactory.create('bar', ...)

NewApp == [ pc |-> "idle", imports |-> [t \in AppTypes |-> "none"] ]
\* no synchronous code of the application is on the stack
StackEmpty(a) == a.pc \in {"idle", "done", "failed"}

AppOnly == UNCHANGED <<emVars, chVars, tpVars, dpVars, dvVars>>

\* initializeApp() up to and including registerChartTypes()
InitializeApp ==
  /\ app.pc = "idle"
  /\ app' = [ pc |-> "running", imports |-> [t \in AppTypes |-> "loading"] ]
  /\ UNCHANGED cfVars
  /\ AppOnly

\* a module has been fetched and evaluated: its promise is fulfilled and
\* the then() callback is queued
ModuleLoaded ==
  \E t \in AppTypes :
    /\ app.imports[t] = "loading"
    /\ app' = [app EXCEPT !.imports[t] = "queued"]
    /\ UNCHANGED cfVars
    /\ AppOnly

\* module => { ChartFactory.register(type, module.X) }
ImportCallback ==
  \E t \in AppTypes :
    /\ app.imports[t] = "queued"
    /\ StackEmpty(app)
    /\ app' = [app EXCEPT !.imports[t] = "done"]
    /\ chartRegistry' = registerType(chartRegistry, t, AppImports[t])
    /\ cfOp' = [ op |-> "register", type |-> t, threw |-> FALSE ]
    /\ UNCHANGED <<regLog, created>>
    /\ AppOnly

\* the rest of initializeApp(): process the data, ChartFactory.create('bar'),
\* render; an exception leaves initializeApp() and its caller
CreateInitialChart ==
  LET r == createChart(chartRegistry, InitialType) IN
  /\ app.pc = "running"
  /\ app' = [app EXCEPT !.pc = IF r.threw THEN "failed" ELSE "done"]
  /\ created' = IF r.threw THEN created ELSE Append(created, r.class)
  /\ cfOp' = [ op |-> "create", type |-> InitialType, threw |-> r.threw ]
  /\ UNCHANGED <<chartRegistry, regLog>>
  /\ AppOnly

IdleApp == app = NewApp

NextApp ==
  \/ InitializeApp
  \/ ModuleLoaded
  \/ ImportCallback
  \/ CreateInitialChart

----------------------------------------------------------------------------
(* Charts                                                                   *)
(*                                                                          *)
(* One chart instance of some class, the page it draws on, and the          *)
(* DataVisualizer that may render it.  Elements are counted per parent:     *)
(*   root     children the chart appended to the visualizer's chart group   *)
(*            (besides the four layer groups the visualizer made),          *)
(*   grp      marks in dataGroup, axis  elements in axisGroup,              *)
(*   attached whether the layer groups are still children of the chart      *)
(*            group,                                                        *)
(*   body     tooltip divs appended to document.body,                       *)
(*   own      elements inside the element options.container selects.        *)
(* legendGroup and annotationGroup stay empty under the default options     *)
(* (BaseChart legend: false) and are left out.                              *)

D3Kinds  == {"base", "bar", "heatmap"}   \* draw into this.container
OwnKinds == {"realtime", "line", "pie", "webgl"}  \* draw into querySelector
ChartKinds == D3Kinds \cup OwnKinds

Values == {50, 99}
Point(t, v) == [time |-> t, value |-> v]
Datasets == { <<>>, <<Point(0, 50)>>, <<Point(0, 50), Point(1, 99)>> }
\* generateInitialData() / generateSampleData(): random values
GeneratedData ==
  { [i \in 1..SampleLen |-> Point(i - 1, v[i])] : v \in [1..SampleLen -> Values] }

FlatData == [i \in 1..SampleLen |-> Point(i - 1, 50)]

HeatmapAxes   == 2    \* drawAxes: two g elements (no axis labels by default)
HeatmapLegend == 5    \* drawColorLegend: defs, rect, three texts
BarAxes       == 2    \* drawAxes: two g elements (no labels, no grid)
LineElems     == 7    \* svg, g, path, four circles
WebGLElems    == 13   \* svg and the twelve elements appended beneath it
PieSample     == 3    \* slices drawn when the chart has no data

Max(a, b) == IF a >= b THEN a ELSE b

World(c, p) == [c |-> c, p |-> p, threw |-> FALSE]
Throw(w) == [w EXCEPT !.threw = TRUE]

\* BaseChart.renderNoDataMessage
renderNoDataMessage(w) == [w EXCEPT !.p.root = @ + 1]

\* BaseChart.render
baseRender(w) ==
  IF ~w.c.container THEN Throw(w)
  ELSE IF Len(w.c.data) = 0 THEN renderNoDataMessage(w)
  ELSE w

\* BarChart.render (ChartFactory.js): it goes on after super.render() even
\* when the data is empty; bars are appended for the data beyond the marks
\* already in dataGroup; one '.tooltip' div is shared.
barRender(w) ==
  LET b == baseRender(w) IN
  IF b.threw THEN b
  ELSE [b EXCEPT !.p.axis = @ + BarAxes,
                 !.p.grp = Max(@, Len(b.c.data)),
                 !.p.body = IF b.c.tooltip /\ @ = 0 THEN 1 ELSE @]

\* Heatmap.render
heatmapRender(w) ==
  LET b == baseRender(w) IN
  IF b.threw \/ Len(b.c.data) = 0 THEN b
  ELSE [b EXCEPT !.p.body = IF b.c.tooltip THEN @ + 1 ELSE @,
                 !.p.grp = Max(@, Len(b.c.data)),
                 !.p.root = @ + HeatmapAxes + HeatmapLegend]

\* render() of the stand-alone SVG charts: n elements replace the content
ownRender(w, n) ==
  IF ~w.p.el THEN Throw(w)
  ELSE [w EXCEPT !.p.own = n]

\* clearInterval(id) / setInterval(fn, 1500)
clearTimer(p, id) == [p EXCEPT !.intervals = @ \ {id}]
setTimer(p) == [p EXCEPT !.intervals = @ \cup {p.nextTimer + 1},
                         !.nextTimer = @ + 1]

\* variant: the interval armed by the previous render is left running
realTimeRender_noClear(w) ==
  IF ~w.p.el THEN Throw(w)
  ELSE IF Len(w.c.mock) = 0 THEN Throw([w EXCEPT !.p.own = 0])
  ELSE LET p1 == [w.p EXCEPT !.own = 4 + Len(w.c.mock)]
           p3 == setTimer(p1)
       IN [w EXCEPT !.p = p3, !.c.timer = p3.nextTimer]

\* RealTimeChart.render: data[0].value throws on an empty series, after
\* the container was cleared and before the timer is touched.
realTimeRender(w) ==
  IF ~w.p.el THEN Throw(w)
  ELSE IF Len(w.c.mock) = 0 THEN Throw([w EXCEPT !.p.own = 0])
  ELSE LET p1 == [w.p EXCEPT !.own = 4 + Len(w.c.mock)]
           p2 == IF w.c.timer # 0 THEN clearTimer(p1, w.c.timer) ELSE p1
           p3 == setTimer(p2)
       IN [w EXCEPT !.p = p3, !.c.timer = p3.nextTimer]

pieSlices(d) == IF Len(d) = 0 THEN PieSample ELSE Len(d)

chartRender(w) ==
  CASE w.c.kind = "base"     -> baseRender(w)
    [] w.c.kind = "bar"      -> barRender(w)
    [] w.c.kind = "heatmap"  -> heatmapRender(w)
    [] w.c.kind = "realtime" -> realTimeRender(w)
    [] w.c.kind = "line"     -> ownRender(w, LineElems)
    [] w.c.kind = "pie"      -> ownRender(w, 2 + 2 * pieSlices(w.c.data))
    [] w.c.kind = "webgl"    -> ownRender(w, WebGLElems)

\* selectAll('*').remove() on dataGroup and axisGroup
clearGroups(w) == [w EXCEPT !.p.grp = 0, !.p.axis = 0]
\* container.chart.selectAll('*').remove(): every descendant of the chart
\* group goes, the layer groups included
clearChart(w) ==
  [w EXCEPT !.p.root = 0, !.p.grp = 0, !.p.axis = 0, !.p.attached = FALSE]

\* BaseChart.update: this.data = newData (a RealTimeChart keeps _mockData)
baseUpdate(w, d) == [w EXCEPT !.c.data = d, !.c.aliased = FALSE]

\* update(newData) of each class
chartUpdate(w, d) ==
  LET u == baseUpdate(w, d) IN
  CASE w.c.kind = "bar" ->
         IF ~u.c.container THEN Throw(u) ELSE barRender(clearGroups(u))
    [] w.c.kind = "heatmap" ->
         IF u.c.container THEN heatmapRender(clearChart(u)) ELSE u
    [] w.c.kind = "line" -> chartRender(u)
    [] OTHER -> u

\* resize() of each class
chartResize(w) ==
  CASE w.c.kind = "bar" ->
         IF ~w.c.container THEN Throw(w) ELSE barRender(clearGroups(w))
    [] w.c.kind = "heatmap" ->
         IF w.c.container THEN heatmapRender(clearChart(w)) ELSE w
    [] w.c.kind = "line" -> chartRender(w)
    [] OTHER -> w

\* RealTimeChart.destroy
realTimeDestroy_keepInterval(w) == [w EXCEPT !.c.timer = 0]
realTimeDestroy(w) ==
  [w EXCEPT !.p = IF w.c.timer # 0 THEN clearTimer(@, w.c.timer) ELSE @,
            !.c.timer = 0]

\* destroy() of each class
chartDestroy(w) ==
  CASE w.c.kind = "realtime" -> realTimeDestroy(w)
    [] w.c.kind = "heatmap"  -> [w EXCEPT !.p.body = 0]
    [] w.c.kind = "webgl"    -> IF w.p.el THEN [w EXCEPT !.p.own = 0] ELSE w
    [] OTHER -> w

\* The interval callback of RealTimeChart.render: shift(), push(), render().
\* With fewer than two points the push argument reads .time of undefined.
tickRun(w, v) ==
  IF Len(w.c.mock) <= 1
  THEN Throw([w EXCEPT !.c.mock = <<>>,
                       !.c.data = IF w.c.aliased THEN <<>> ELSE @])
  ELSE LET m == Tail(w.c.mock)
           n == Append(m, Point(m[Len(m)].time + 1, v))
       IN realTimeRender([w EXCEPT !.c.mock = n,
                                   !.c.data = IF w.c.aliased THEN n ELSE @])

\* DataVisualizer.render(chart): clear the layer groups, hand the chart its
\* container, chart.render(), emit 'chart:rendered'
vizRender(w) ==
  chartRender([clearGroups(w) EXCEPT !.c.container = TRUE])

InBounds(w) ==
  /\ w.p.nextTimer <= MaxTimers
  /\ w.p.root <= MaxElems
  /\ w.p.axis <= MaxElems
  /\ w.p.body <= MaxElems

ChOnly == UNCHANGED <<emVars, cfVars, tpVars, dpVars, apVars, dvVars>>

\* what an operation leaves in chOp: its name, whether it threw, whether the
\* operation before it was the same one, and the dataset passed to update
Done(op, w) ==
  [op |-> op, threw |-> w.threw, again |-> chOp.op = op, arg |-> <<>>]

\* chart.render(), called directly
ChartRender ==
  LET w == chartRender(World(chart, page)) IN
  /\ InBounds(w)
  /\ chart' = w.c /\ page' = w.p /\ chOp' = Done("render", w)
  /\ viz' = viz
  /\ ChOnly

\* visualizer.render(chart): currentChart and currentData are set first;
\* same records that currentData is the array chart.data refers to
VizRender ==
  LET w == vizRender(World(chart, page)) IN
  /\ InBounds(w)
  /\ chart' = w.c /\ page' = w.p /\ chOp' = Done("vizRender", w)
  /\ viz' = [current |-> TRUE, data |-> chart.data, same |-> TRUE]
  /\ ChOnly

\* chart.update(newData)
Update ==
  \E d \in Datasets :
    LET w == chartUpdate(World(chart, page), d) IN
    /\ InBounds(w)
    /\ chart' = w.c /\ page' = w.p /\ chOp' = [Done("update", w) EXCEPT !.arg = d]
    /\ viz' = [viz EXCEPT !.same = FALSE]
    /\ ChOnly


\* chart.resize()
Resize ==
  LET w == chartResize(World(chart, page)) IN
  /\ InBounds(w)
  /\ chart' = w.c /\ page' = w.p /\ chOp' = Done("resize", w)
  /\ viz' = viz
  /\ ChOnly

\* chart.destroy(); destroyed records that it was called
Destroy ==
  LET w == chartDestroy(World([chart EXCEPT !.destroyed = TRUE], page)) IN
  /\ InBounds(w)
  /\ chart' = w.c /\ page' = w.p /\ chOp' = Done("destroy", w)
  /\ viz' = viz
  /\ ChOnly

\* an active interval fires
Tick ==
  /\ page.intervals # {}
  /\ \E v \in Values :
       LET w == tickRun(World(chart, page), v) IN
       /\ InBounds(w)
       /\ chart' = w.c /\ page' = w.p /\ chOp' = Done("tick", w)
       /\ viz' = IF chart.aliased /\ viz.same
                 THEN [viz EXCEPT !.data = w.c.data] ELSE viz
       /\ ChOnly

\* visualizer.render(null): 'No chart provided to render'
VizRenderNull ==
  /\ chOp' = [Done("vizRenderNull", World(chart, page)) EXCEPT !.threw = TRUE]
  /\ UNCHANGED <<chart, page, viz>>
  /\ ChOnly

\* visualizer.update(data): throws while nothing was rendered; otherwise
\* currentData and chart.data are set, then chart.update(data) runs and
\* 'chart:updated' is emitted
VizUpdate ==
  \E d \in Datasets :
    IF ~viz.current
    THEN /\ chOp' = [Done("vizUpdate", World(chart, page))
                       EXCEPT !.threw = TRUE, !.arg = d]
         /\ UNCHANGED <<chart, page, viz>>
         /\ ChOnly
    ELSE LET w == chartUpdate(World([chart EXCEPT !.data = d], page), d) IN
         /\ InBounds(w)
         /\ chart' = w.c /\ page' = w.p
         /\ chOp' = [Done("vizUpdate", w) EXCEPT !.arg = d]
         /\ viz' = [viz EXCEPT !.data = d, !.same = TRUE]
         /\ ChOnly


NoChOp == [op |-> "init", threw |-> FALSE, again |-> FALSE, arg |-> <<>>]

\* new Class(options): options.data is an array or left out
NewChart(k, given, d, g, tip) ==
  [kind |-> k,
   tooltip |-> tip,
   data |-> IF ~given THEN (IF k = "heatmap" THEN g ELSE <<>>)
            ELSE IF k = "heatmap" /\ Len(d) = 0 THEN g ELSE d,
   mock |-> IF k # "realtime" THEN <<>> ELSE IF given THEN d ELSE g,
   aliased |-> k = "realtime" /\ given,
   timer |-> 0,
   container |-> FALSE,
   destroyed |-> FALSE]

NewPage(el) ==
  [el |-> el, intervals |-> {}, nextTimer |-> 0,
   root |-> 0, grp |-> 0, axis |-> 0, attached |-> TRUE, body |-> 0, own |-> 0]

\* new DataVisualizer(options): currentChart = null, currentData = null
NewViz == [current |-> FALSE, data |-> <<>>, same |-> FALSE]

IdleCh ==
  /\ chart = NewChart("base", FALSE, <<>>, <<>>, TRUE)
  /\ page = NewPage(TRUE)
  /\ chOp = NoChOp
  /\ viz = NewViz

\* the two instances of the shared-document model, before any operation
Inst == {1, 2}
NoTipOp == [op |-> "init", inst |-> 1]

IdleTp ==
  /\ insts = [i \in Inst |-> NewChart("bar", TRUE, <<Point(0, 50)>>, FlatData, TRUE)]
  /\ pages = [i \in Inst |-> NewPage(TRUE)]
  /\ owned = [i \in Inst |-> 0]
  /\ tipOp = NoTipOp

NextChart ==
  \/ ChartRender
  \/ VizRender
  \/ VizRenderNull
  \/ VizUpdate
  \/ Update
  \/ Resize
  \/ Destroy
  \/ Tick

----------------------------------------------------------------------------
(* The DataVisualizer with the Event Bus it was given                       *)
(* (src/src/core/DataVisualizer.js).  The chart lifecycle specification     *)
(* above is the visualizer without an eventManager; here the bus is shared  *)
(* with other components, which register listeners of their own on it.     *)
(* dv holds: svg (this.svg and the layer groups are not null), bus (an      *)
(* eventManager was passed), observing (setupResponsive made a              *)
(* ResizeObserver; nothing ever disconnects it), width, and for the last    *)
(* operation its name, whether it threw and the trace of what it did.       *)

ChartRendered == <<"chart", ":", "rendered">>
ChartUpdated  == <<"chart", ":", "updated">>
ChartResized  == <<"chart", ":", "resized">>
VizNames == {ChartRendered, ReEvent}     \* names listened to
VizCbs   == {"cb1", "cb2"}
VizKinds == {"bar", "realtime"}
Widths   == {400}

\* a step of the trace: the chart's own method has returned, emit(name)
\* was called, or removeAllListeners() removed the listeners of some names
ChartStep == [step |-> "chart", name |-> NoName, removed |-> {}]
EmitStep(n) == [step |-> "emit", name |-> n, removed |-> {}]
RemoveStep(S) == [step |-> "removeAll", name |-> NoName, removed |-> S]
Emitted(trace) == SelectSeq(trace, LAMBDA x : x.step = "emit")

NewDv(bus, responsive) ==
  [svg |-> TRUE, bus |-> bus, observing |-> responsive, width |-> 800,
   op |-> "init", threw |-> FALSE, trace |-> <<>>]

\* what a call of the visualizer leaves
DvOut(c, p, vz, ev, cs, trace, threw) ==
  [c |-> c, p |-> p, viz |-> vz, events |-> ev, calls |-> cs,
   trace |-> trace, threw |-> threw]

\* variant: the event is emitted twice
busEmit_twice(d, ev, n) ==
  IF ~d.bus THEN [events |-> ev, calls |-> <<>>, trace |-> <<>>]
  ELSE LET r == emitRun(RunState(ev), n, 0, 0)
           r2 == emitRun(RunState(r.events), n, 0, 0)
       IN [events |-> r2.events, calls |-> r.calls \o r2.calls,
           trace |-> <<EmitStep(n), EmitStep(n)>>]

\* if (this.eventManager) { this.eventManager.emit(name, {...}) }
busEmit(d, ev, n) ==
  IF ~d.bus THEN [events |-> ev, calls |-> <<>>, trace |-> <<>>]
  ELSE LET r == emitRun(RunState(ev), n, 0, 0)
       IN [events |-> r.events, calls |-> r.calls, trace |-> <<EmitStep(n)>>]

\* render(chart): currentChart and currentData are set first; the layer
\* groups are null after destroy(), and selectAll on null throws
dvRender(c, p, d, ev) ==
  LET vz1 == [current |-> TRUE, data |-> c.data, same |-> TRUE] IN
  IF ~d.svg THEN DvOut(c, p, vz1, ev, <<>>, <<>>, TRUE)
  ELSE LET w == vizRender(World(c, p)) IN
       IF w.threw THEN DvOut(w.c, w.p, vz1, ev, <<>>, <<>>, TRUE)
       ELSE LET e == busEmit(d, ev, ChartRendered)
            IN DvOut(w.c, w.p, vz1, e.events, e.calls,
                     <<ChartStep>> \o e.trace, FALSE)

\* update(data)
dvUpdate(c, p, vz, d, ev, data) ==
  IF ~vz.current THEN DvOut(c, p, vz, ev, <<>>, <<>>, TRUE)
  ELSE LET vz1 == [vz EXCEPT !.data = data, !.same = TRUE]
           w == chartUpdate(World([c EXCEPT !.data = data], p), data)
       IN IF w.threw THEN DvOut(w.c, w.p, vz1, ev, <<>>, <<>>, TRUE)
          ELSE LET e == busEmit(d, ev, ChartUpdated)
               IN DvOut(w.c, w.p, vz1, e.events, e.calls,
                        <<ChartStep>> \o e.trace, FALSE)

\* resize(width, height), after this.width and this.height were set:
\* this.svg.attr(...) throws when this.svg is null
dvResize(c, p, vz, d, ev) ==
  IF ~d.svg THEN DvOut(c, p, vz, ev, <<>>, <<>>, TRUE)
  ELSE LET w == IF vz.current THEN chartResize(World(c, p)) ELSE World(c, p)
       IN IF w.threw THEN DvOut(w.c, w.p, vz, ev, <<>>, <<>>, TRUE)
          ELSE LET e == busEmit(d, ev, ChartResized)
               IN DvOut(w.c, w.p, vz, e.events, e.calls,
                        (IF vz.current THEN <<ChartStep>> ELSE <<>>)
                          \o e.trace,
                        FALSE)

\* variant: only the 'chart:*' listeners are removed
dvDestroy_chartEventsOnly(c, p, vz, d, ev) ==
  LET w == IF vz.current
           THEN chartDestroy(World([c EXCEPT !.destroyed = TRUE], p))
           ELSE World(c, p)
      kept == IF d.bus
              THEN Restrict(ev, DOMAIN ev \ {ChartRendered, ChartUpdated,
                                             ChartResized})
              ELSE ev
  IN DvOut(w.c, w.p, NewViz, kept, <<>>,
           IF d.bus THEN <<RemoveStep(DOMAIN ev \ DOMAIN kept)>> ELSE <<>>,
           FALSE)

\* destroy(): remove the svg, destroy the current chart, removeAllListeners()
\* on the eventManager, null the references
dvDestroy(c, p, vz, d, ev) ==
  LET w == IF vz.current
           THEN chartDestroy(World([c EXCEPT !.destroyed = TRUE], p))
           ELSE World(c, p)
      kept == IF d.bus THEN removeAllEv(ev, NoName) ELSE ev
  IN DvOut(w.c, w.p, NewViz, kept, <<>>,
           IF d.bus THEN <<RemoveStep(DOMAIN ev \ DOMAIN kept)>> ELSE <<>>,
           FALSE)

\* chOp and lastOp record the calls made on the chart and on the bus
\* directly; the calls made through the visualizer are recorded in dv
DvOnly == UNCHANGED <<cfVars, tpVars, dpVars, apVars, chOp>>

\* another component registers a listener on the same bus
BusOn ==
  \E n \in VizNames, c \in VizCbs :
    /\ dv.bus
    /\ DoOn(n, c)
    /\ dv' = [dv EXCEPT !.op = "on", !.threw = FALSE, !.trace = <<>>]
    /\ UNCHANGED <<chart, page, viz>>
    /\ DvOnly

\* visualizer.render(chart), or render(null)
DvRender ==
  \E given \in BOOLEAN :
    LET o == IF given THEN dvRender(chart, page, dv, events)
             ELSE DvOut(chart, page, viz, events, <<>>, <<>>, TRUE) IN
    /\ InBounds(World(o.c, o.p))
    /\ chart' = o.c /\ page' = o.p /\ viz' = o.viz
    /\ events' = o.events /\ calls' = o.calls
    /\ dv' = [dv EXCEPT !.op = "render", !.threw = o.threw, !.trace = o.trace]
    /\ UNCHANGED lastOp
    /\ DvOnly

\* visualizer.update(data)
DvUpdate ==
  \E data \in Datasets :
    LET o == dvUpdate(chart, page, viz, dv, events, data) IN
    /\ InBounds(World(o.c, o.p))
    /\ chart' = o.c /\ page' = o.p /\ viz' = o.viz
    /\ events' = o.events /\ calls' = o.calls
    /\ dv' = [dv EXCEPT !.op = "update", !.threw = o.threw, !.trace = o.trace]
    /\ UNCHANGED lastOp
    /\ DvOnly

\* visualizer.resize(width, height), called by the application
DvResize ==
  \E wd \in Widths :
    LET o == dvResize(chart, page, viz, dv, events) IN
    /\ InBounds(World(o.c, o.p))
    /\ chart' = o.c /\ page' = o.p /\ viz' = o.viz
    /\ events' = o.events /\ calls' = o.calls
    /\ dv' = [dv EXCEPT !.op = "resize", !.threw = o.threw,
                        !.trace = o.trace, !.width = wd]
    /\ UNCHANGED lastOp
    /\ DvOnly

\* the ResizeObserver callback: an entry for the container calls
\* this.resize(width, height); an exception leaves the callback
ObserverNotify ==
  \E wd \in Widths :
    LET o == dvResize(chart, page, viz, dv, events) IN
    /\ dv.observing
    /\ InBounds(World(o.c, o.p))
    /\ chart' = o.c /\ page' = o.p /\ viz' = o.viz
    /\ events' = o.events /\ calls' = o.calls
    /\ dv' = [dv EXCEPT !.op = "observer", !.threw = o.threw,
                        !.trace = o.trace, !.width = wd]
    /\ UNCHANGED lastOp
    /\ DvOnly

\* visualizer.destroy()
DvDestroy ==
  LET o == dvDestroy(chart, page, viz, dv, events) IN
  /\ chart' = o.c /\ page' = o.p /\ viz' = o.viz
  /\ events' = o.events /\ calls' = o.calls
  /\ dv' = [dv EXCEPT !.op = "destroy", !.threw = o.threw, !.trace = o.trace,
                      !.svg = FALSE]
  /\ UNCHANGED lastOp
  /\ DvOnly

IdleDv == dv = NewDv(FALSE, FALSE)

NextViz ==
  \/ BusOn
  \/ DvRender
  \/ DvUpdate
  \/ DvResize
  \/ ObserverNotify
  \/ DvDestroy

----------------------------------------------------------------------------
(* Two chart instances, each rendered by a visualizer of its own, on one    *)
(* document.  Tooltip divs go to document.body, which the instances share:  *)
(* a BarChart looks for a '.tooltip' div, a Heatmap appends and removes     *)
(* '.heatmap-tooltip' divs, whoever made them.                              *)

TipKinds == {"bar", "heatmap"}

RECURSIVE SumOver(_, _)
SumOver(f, S) ==
  IF S = {} THEN 0
  ELSE LET x == CHOOSE y \in S : TRUE IN f[x] + SumOver(f, S \ {x})

\* the instances whose tooltip divs bear the class those of i bear
SameClass(i) == { j \in Inst : insts[j].kind = insts[i].kind }
\* what instance i finds: its own surface, and in the body every div of
\* its tooltip class
Seen(i) ==
  World(insts[i], [pages[i] EXCEPT !.body = SumOver(owned, SameClass(i))])

TpOnly == UNCHANGED <<emVars, cfVars, chVars, dpVars, apVars, dvVars>>

\* visualizer_i.render(chart_i): the divs it adds to the body are those of i
TipRender(i) ==
  LET w == vizRender(Seen(i)) IN
  /\ InBounds(w)
  /\ insts' = [insts EXCEPT ![i] = w.c]
  /\ pages' = [pages EXCEPT ![i] = [w.p EXCEPT !.body = 0]]
  /\ owned' = [owned EXCEPT ![i] = @ + (w.p.body - Seen(i).p.body)]
  /\ tipOp' = [op |-> "render", inst |-> i]
  /\ TpOnly

\* chart_i.destroy(): the divs of the class that are gone are gone for
\* every instance
TipDestroy(i) ==
  LET w == chartDestroy(Seen(i)) IN
  /\ insts' = [insts EXCEPT ![i] = w.c]
  /\ pages' = [pages EXCEPT ![i] = [w.p EXCEPT !.body = 0]]
  /\ owned' = IF w.p.body = Seen(i).p.body THEN owned
              ELSE [j \in Inst |-> IF j \in SameClass(i) THEN 0 ELSE owned[j]]
  /\ tipOp' = [op |-> "destroy", inst |-> i]
  /\ TpOnly

RenderInst == \E i \in Inst : TipRender(i)
DestroyInst == \E i \in Inst : TipDestroy(i)

NextTips ==
  \/ RenderInst
  \/ DestroyInst

----------------------------------------------------------------------------
(* DataProcessor and the statistics helpers                                 *)
(*                                                                          *)
(* A dataset is an array of records; a record maps field names to cells.    *)
(* Field names are sequences of name parts, so that the derived names       *)
(* `${column}_isOutlier` and `${column}_normalized` are computed.  A cell   *)
(* carries its JavaScript type: num (a finite number), str (a string that   *)
(* is not a number), numstr (a string holding the decimal of v), bool,      *)
(* frac (the number n/d), undef.                                            *)

Num(n)     == [t |-> "num", v |-> n]
Str(n)     == [t |-> "str", v |-> n]
NumStr(n)  == [t |-> "numstr", v |-> n]
Bool(b)    == [t |-> "bool", v |-> IF b THEN 1 ELSE 0]
Frac(n, d) == [t |-> "frac", v |-> n, den |-> d]
Undef      == [t |-> "undef", v |-> 0]

\* typeof c === 'number'
IsNumber(c) == c.t \in {"num", "frac"}

FieldA     == <<"a">>
FieldCount == <<"count">>
OutlierOf(f) == f \o <<"_isOutlier">>
NormalizedOf(f) == f \o <<"_normalized">>
EndsWith(f, suffix) == f # <<>> /\ f[Len(f)] = suffix

\* item[f]: undefined when the record has no such field
Get(r, f) == IF f \in DOMAIN r THEN r[f] ELSE Undef
\* item[f] = c
Put(r, f, c) == (f :> c) @@ r

\* Inputs: records over the fields a and count
CellsA     == {Num(1), Str(1), NumStr(2)}
CellsCount == {Num(1), Num(2)}
InRecords ==
  { [f \in {FieldA} |-> c] : c \in CellsA }
    \cup { [f \in {FieldCount} |-> c] : c \in CellsCount }
    \cup { [f \in {FieldA, FieldCount} |->
              IF f = FieldA THEN p[1] ELSE p[2]] : p \in CellsA \X CellsCount }
SeqsUpTo(S, n) == UNION { [1..m -> S] : m \in 0..n }
\* single-field datasets built from lists of values
OutlierValues == {1, 2, 9}
ValueData(vs) == [i \in 1..Len(vs) |-> [f \in {FieldA} |-> Num(vs[i])]]
Scenario == <<1, 2, 3, 4, 100>>      \* the documented example
AtBound  == <<1, 2, 3, 4, 7>>        \* 7 is Q3 + 1.5 * IQR
ThreeKeys == << (FieldA :> Num(1)) @@ (FieldCount :> Num(5)),
                (FieldA :> Num(2)) @@ (FieldCount :> Num(6)),
                (FieldA :> Str(1)) @@ (FieldCount :> Num(7)) >>
\* a field that holds numbers and a string that is no number
MixedKeys == << (FieldA :> Num(2)), (FieldA :> Str(1)), (FieldA :> Num(1)) >>
ArrayInputs ==
  SeqsUpTo(InRecords, MaxRecs)
    \cup { ValueData(vs) : vs \in SeqsUpTo(OutlierValues, MaxVals) }
    \cup { ValueData(Scenario), ValueData(AtBound), ThreeKeys, MixedKeys }
\* what a caller may pass instead of an array
NonArrays == {"undefined", "null", "object", "string"}
Arr(d) == [isArray |-> TRUE, items |-> d, what |-> "array"]
NonArr(w) == [isArray |-> FALSE, items |-> <<>>, what |-> w]
DPInputs == { Arr(d) : d \in ArrayInputs } \cup { NonArr(w) : w \in NonArrays }

\* What a call leaves: whether it threw, the caller's dataset after the
\* call, and what it returned.  same tells that the array returned is the
\* array passed in.
Thrown(d) == [threw |-> TRUE, data |-> d, out |-> NonArr("undefined"),
              same |-> FALSE]
Returned(d, o, same) == [threw |-> FALSE, data |-> d, out |-> o, same |-> same]
MapSeq(s, Op(_)) == [i \in 1..Len(s) |-> Op(s[i])]

\* JSON.parse(JSON.stringify(record)): fields holding undefined are dropped,
\* numbers, strings and booleans come back as they were
jsonRecord(r) == [f \in { g \in DOMAIN r : r[g].t # "undef" } |-> r[f]]

\* cleanData(data)
cleanRecord(r) ==
  [f \in DOMAIN r |-> IF r[f].t = "numstr" THEN Num(r[f].v) ELSE r[f]]
cleanData(d) ==
  IF ~d.isArray THEN Thrown(d)
  ELSE Returned(d, Arr(MapSeq(d.items, cleanRecord)), FALSE)

\* values.sort(d3.ascending) on numbers
RECURSIVE Insert(_, _)
Insert(x, s) ==
  IF s = <<>> THEN <<x>>
  ELSE IF x <= Head(s) THEN <<x>> \o s
  ELSE <<Head(s)>> \o Insert(x, Tail(s))
RECURSIVE SortAsc(_)
SortAsc(s) == IF s = <<>> THEN <<>> ELSE Insert(Head(s), SortAsc(Tail(s)))

\* four times d3.quantile(sorted, q/4), q \in {1, 3}: with i = (n - 1) * q/4
\* it is sorted[floor(i)] plus the fraction of the step to the next value
Quantile4(sorted, q) ==
  LET n == Len(sorted)
      i4 == (n - 1) * q
      i0 == i4 \div 4
      r == i4 % 4
  IN IF n < 2 THEN 4 * sorted[1]
     ELSE IF r = 0 THEN 4 * sorted[i0 + 1]
     ELSE 4 * sorted[i0 + 1] + (sorted[i0 + 2] - sorted[i0 + 1]) * r

\* eight times the IQR bounds; k2 is twice the threshold
LowerBound8(sorted, k2) ==
  2 * Quantile4(sorted, 1) - k2 * (Quantile4(sorted, 3) - Quantile4(sorted, 1))
UpperBound8(sorted, k2) ==
  2 * Quantile4(sorted, 3) + k2 * (Quantile4(sorted, 3) - Quantile4(sorted, 1))

\* value < lowerBound || value > upperBound
isOutlier_inclusive(v, sorted, k2) ==
  8 * v <= LowerBound8(sorted, k2) \/ 8 * v >= UpperBound8(sorted, k2)
isOutlier(v, sorted, k2) ==
  8 * v < LowerBound8(sorted, k2) \/ 8 * v > UpperBound8(sorted, k2)

\* data.map(item => item[column]).filter(val => typeof val === 'number')
ColumnValues(items, f) ==
  LET nums == SelectSeq(items, LAMBDA r : IsNumber(Get(r, f)))
  IN [i \in 1..Len(nums) |-> nums[i][f].v]

\* the columns handleOutliers and normalizeValues work on: the keys of the
\* first item that hold a number there
FirstItemColumns(items) ==
  IF items = <<>> THEN {}
  ELSE { f \in DOMAIN items[1] : IsNumber(items[1][f]) }

\* one column of handleOutliers; a method that is none of the known ones
\* leaves the bounds undefined and every comparison false
flagColumn(items, f, method, k2) ==
  LET sorted == SortAsc(ColumnValues(items, f)) IN
  [i \in 1..Len(items) |->
     IF IsNumber(Get(items[i], f))
     THEN Put(items[i], OutlierOf(f),
              Bool(method = "iqr" /\ isOutlier(items[i][f].v, sorted, k2)))
     ELSE items[i]]

RECURSIVE flagColumns(_, _, _, _)
flagColumns(items, cols, method, k2) ==
  IF cols = {} THEN items
  ELSE LET f == CHOOSE g \in cols : TRUE
       IN flagColumns(flagColumn(items, f, method, k2), cols \ {f}, method, k2)

\* handleOutliers(data, method, threshold): the records of data are changed
\* in place and data is returned
handleOutliers(d, method, k2) ==
  IF ~d.isArray THEN Thrown(d)
  ELSE LET m == flagColumns(d.items, FirstItemColumns(d.items), method, k2)
       IN Returned(Arr(m), Arr(m), TRUE)

\* one column of normalizeValues
normalizeColumn(items, f) ==
  LET sorted == SortAsc(ColumnValues(items, f))
      min == sorted[1]
      max == sorted[Len(sorted)]
  IN IF max - min = 0 THEN items
     ELSE [i \in 1..Len(items) |->
             IF IsNumber(Get(items[i], f))
             THEN Put(items[i], NormalizedOf(f),
                      Frac(items[i][f].v - min, max - min))
             ELSE items[i]]

RECURSIVE normalizeColumns(_, _)
normalizeColumns(items, cols) ==
  IF cols = {} THEN items
  ELSE LET f == CHOOSE g \in cols : TRUE
       IN normalizeColumns(normalizeColumn(items, f), cols \ {f})

\* normalizeValues(data): in place as well
normalizeValues(d) ==
  IF ~d.isArray THEN Thrown(d)
  ELSE LET cols == { f \in FirstItemColumns(d.items) :
                       ~EndsWith(f, "_isOutlier") }
           m == normalizeColumns(d.items, cols)
       IN Returned(Arr(m), Arr(m), TRUE)

\* process(data, options): a deep copy goes through the stages switched on;
\* JSON.parse(JSON.stringify(undefined)) throws
DefaultMethod == "iqr"
DefaultK2 == 3      \* outlierThreshold 1.5, doubled
process(d, clean, detect, normalize) ==
  IF d.what = "undefined" THEN Thrown(d)
  ELSE
    LET copy == IF d.isArray THEN Arr(MapSeq(d.items, jsonRecord)) ELSE d
        s1 == IF clean THEN cleanData(copy) ELSE Returned(copy, copy, TRUE)
        s2 == IF s1.threw \/ ~detect THEN s1
              ELSE handleOutliers(s1.out, DefaultMethod, DefaultK2)
        s3 == IF s2.threw \/ ~normalize THEN s2
              ELSE normalizeValues(s2.out)
    IN IF s3.threw THEN Thrown(d) ELSE Returned(d, s3.out, FALSE)

\* the distinct keys d[field], in order of first occurrence (d3.group keeps
\* a Map; strings and numbers are different keys)
RECURSIVE GroupKeys(_, _)
GroupKeys(items, field) ==
  IF items = <<>> THEN <<>>
  ELSE LET rest == GroupKeys(SubSeq(items, 1, Len(items) - 1), field)
           k == Get(items[Len(items)], field)
       IN IF \E i \in 1..Len(rest) : rest[i] = k THEN rest ELSE Append(rest, k)

\* d3.sum(values, d => d[f]): every value is coerced with +value and NaN
\* is skipped
Coerced(c) == IF c.t \in {"num", "numstr", "bool"} THEN c.v ELSE 0
RECURSIVE SumField(_, _)
SumField(items, f) ==
  IF items = <<>> THEN 0
  ELSE Coerced(Get(Head(items), f)) + SumField(Tail(items), f)

AggFns == {"sum", "count", "other"}   \* 'other': the default branch, a sum
aggregate(values, f, fn) ==
  IF fn = "count" THEN Num(Len(values)) ELSE Num(SumField(values, f))

\* { [field]: key, [aggregateField]: aggregatedValue, count: values.length }:
\* a later property replaces an earlier one of the same name
groupRow(key, values, field, aggField, fn) ==
  Put(Put((field :> key), aggField, aggregate(values, aggField, fn)),
      FieldCount, Num(Len(values)))

\* groupBy(data, field, aggregateField, aggregateFunction)
groupBy(d, field, aggField, fn) ==
  IF ~d.isArray THEN Thrown(d)
  ELSE LET keys == GroupKeys(d.items, field)
           rows == [i \in 1..Len(keys) |->
                      groupRow(keys[i],
                               SelectSeq(d.items,
                                         LAMBDA r : Get(r, field) = keys[i]),
                               field, aggField, fn)]
       IN Returned(d, Arr(rows), FALSE)

\* filter(data, conditions).  conditions is the list of Object.entries: one
\* entry per key, holding a value, an array or a { min, max } object in
\* which a bound left out is undefined.
NoCond == <<>>
EqCond(f, c) ==
  [field |-> f, kind |-> "value", value |-> c, of |-> {},
   min |-> Undef, max |-> Undef]
InCond(f, S) ==
  [field |-> f, kind |-> "array", value |-> Undef, of |-> S,
   min |-> Undef, max |-> Undef]
RangeCond(f, lo, hi) ==
  [field |-> f, kind |-> "object", value |-> Undef, of |-> {},
   min |-> lo, max |-> hi]
CondsA ==
  { EqCond(FieldA, Num(1)), EqCond(FieldA, Str(1)),
    InCond(FieldA, {Num(1), NumStr(2)}), InCond(FieldA, {}),
    RangeCond(FieldA, Num(2), Undef), RangeCond(FieldA, Undef, Num(1)),
    RangeCond(FieldA, Num(1), Num(2)), RangeCond(FieldA, Undef, Undef) }
CondsCount ==
  { EqCond(FieldCount, Num(2)), RangeCond(FieldCount, Num(2), Undef) }
Conditions ==
  {NoCond} \cup { <<e>> : e \in CondsA \cup CondsCount }
           \cup { <<p[1], p[2]>> : p \in CondsA \X CondsCount }
\* itemValue >= min and itemValue <= max against a number: a numeric string
\* or a boolean is converted, any other string and undefined give NaN
AtLeast(c, m) == c.t \in {"num", "numstr", "bool"} /\ c.v >= m.v
AtMost(c, m) == c.t \in {"num", "numstr", "bool"} /\ c.v <= m.v
\* the callback of every()
matches(item, e) ==
  LET itemValue == Get(item, e.field) IN
  IF e.kind = "array" THEN itemValue \in e.of
  ELSE IF e.kind = "object" /\ e.min # Undef /\ e.max # Undef
       THEN AtLeast(itemValue, e.min) /\ AtMost(itemValue, e.max)
  ELSE IF e.kind = "object" /\ e.min # Undef THEN AtLeast(itemValue, e.min)
  ELSE IF e.kind = "object" /\ e.max # Undef THEN AtMost(itemValue, e.max)
  ELSE IF e.kind = "object" THEN FALSE   \* item[key] === value, an object
  ELSE itemValue = e.value
filter(d, conds) ==
  IF ~d.isArray THEN Thrown(d)
  ELSE IF conds = NoCond THEN Returned(d, d, TRUE)
  ELSE Returned(d,
                Arr(SelectSeq(d.items,
                              LAMBDA r : \A i \in 1..Len(conds) :
                                           matches(r, conds[i]))),
                FALSE)

\* valueA < valueB: numbers (and a numeric string against a number) compare
\* by value, two strings by code units (digits sort before letters), and a
\* comparison with undefined or of a number with any other string is false
StrRank(c) == IF c.t = "numstr" THEN c.v ELSE 10 + c.v
Lt(a, b) ==
  IF a.t = "undef" \/ b.t = "undef" THEN FALSE
  ELSE IF a.t \in {"str", "numstr"} /\ b.t \in {"str", "numstr"}
       THEN StrRank(a) < StrRank(b)
  ELSE IF a.t = "str" \/ b.t = "str" THEN FALSE
  ELSE a.v < b.v
\* the comparator: -1 when a goes first
Before(a, b, f, asc) ==
  IF asc THEN Lt(Get(a, f), Get(b, f)) ELSE Lt(Get(b, f), Get(a, f))
compare(a, b, f, asc) ==
  IF Get(a, f) = Get(b, f) THEN 0 ELSE IF Before(a, b, f, asc) THEN -1 ELSE 1
\* [...data].sort(comparator).  The sort is stable when the comparator is
\* consistent over the records; otherwise the order is
\* implementation-defined.
Comparable(items, f) ==
  LET I == 1..Len(items)
      c(i, j) == compare(items[i], items[j], f, TRUE)
  IN /\ \A i, j \in I : c(i, j) = 0 - c(j, i)
     /\ \A i, j, k \in I : (c(i, j) < 0 /\ c(j, k) < 0) => c(i, k) < 0
RECURSIVE InsertBy(_, _, _, _)
InsertBy(x, s, f, asc) ==
  IF s = <<>> THEN <<x>>
  ELSE IF compare(Head(s), x, f, asc) <= 0
       THEN <<Head(s)>> \o InsertBy(x, Tail(s), f, asc)
       ELSE <<x>> \o s
RECURSIVE StableSort(_, _, _)
StableSort(s, f, asc) ==
  IF s = <<>> THEN <<>>
  ELSE InsertBy(s[Len(s)], StableSort(SubSeq(s, 1, Len(s) - 1), f, asc), f, asc)
Orderings(s) ==
  { [i \in 1..Len(s) |-> s[p[i]]] :
      p \in { q \in [1..Len(s) -> 1..Len(s)] :
                \A i, j \in 1..Len(s) : q[i] = q[j] => i = j } }
\* the arrays sort(data, field, ascending) may return
sortOutcomes(d, f, asc) ==
  IF ~d.isArray THEN {Thrown(d)}
  ELSE IF Comparable(d.items, f)
       THEN {Returned(d, Arr(StableSort(d.items, f, asc)), FALSE)}
       ELSE { Returned(d, Arr(s), FALSE) : s \in Orderings(d.items) }

\* getNumericFields(data): the keys of the first item that hold a number in
\* some item; [] for an empty array and for anything that is no array
FieldsOut(S) ==
  [isArray |-> FALSE, items |-> <<>>, what |-> "fields", fields |-> S]
numericFieldSet(d) ==
  IF ~d.isArray \/ d.items = <<>> THEN {}
  ELSE { f \in DOMAIN d.items[1] :
           \E i \in 1..Len(d.items) : IsNumber(Get(d.items[i], f)) }
getNumericFields(d) == Returned(d, FieldsOut(numericFieldSet(d)), FALSE)

\* calculateStatistics(data, field): one summary per field (count, min,
\* max, sum and four times q1 and q3 are kept; mean, median and std are
\* not); a field without numbers gets the count-0 summary of nulls
NoField == <<>>
summary(items, f) ==
  LET sorted == SortAsc(ColumnValues(items, f)) IN
  IF sorted = <<>>
  THEN [count |-> 0, nulls |-> TRUE, min |-> 0, max |-> 0, sum |-> 0,
        q1x4 |-> 0, q3x4 |-> 0]
  ELSE [count |-> Len(sorted), nulls |-> FALSE,
        min |-> sorted[1], max |-> sorted[Len(sorted)],
        sum |-> SumField(ValueData(sorted), FieldA),
        q1x4 |-> Quantile4(sorted, 1), q3x4 |-> Quantile4(sorted, 3)]
StatsOut(s) ==
  [isArray |-> FALSE, items |-> <<>>, what |-> "stats", stats |-> s]
calculateStatistics(d, field) ==
  IF ~d.isArray THEN Thrown(d)
  ELSE LET fields == IF field # NoField THEN {field} ELSE numericFieldSet(d)
       IN Returned(d, StatsOut([f \in fields |-> summary(d.items, f)]), FALSE)

\* updateRandomValues(data, percentage, variationFactor): a deep copy in
\* which ceil(n * percentage / 100) items have one of the numeric fields,
\* picked at random, replaced by a value near the old one; an item that
\* holds no number there gets NaN, or a longer string for a numeric string
Percentages == {0, 100}
vary(c) ==
  CASE c.t = "num" -> [t |-> "varied", v |-> c.v]
    [] c.t = "numstr" -> Str(c.v)
    [] OTHER -> [t |-> "nan", v |-> 0]
updateOutcomes(d, pct) ==
  IF ~d.isArray THEN {Thrown(d)}
  ELSE LET copy == MapSeq(d.items, jsonRecord)
           fields == numericFieldSet(Arr(copy))
       IN IF fields = {} \/ pct = 0 THEN {Returned(d, Arr(copy), FALSE)}
          ELSE { Returned(d,
                          Arr([i \in 1..Len(copy) |->
                                 Put(copy[i], ch[i], vary(Get(copy[i], ch[i])))]),
                          FALSE) : ch \in [1..Len(copy) -> fields] }

\* statistics.detectOutliers(data, field, method, threshold): the records
\* whose value lies outside the bounds; values that are null, undefined or
\* NaN are left out, the others are compared as numbers
IsValue(c) == c.t \in {"num", "numstr", "bool"}
detectOutliers(d, f, method, k2) ==
  IF ~d.isArray \/ d.items = <<>> THEN Returned(d, Arr(<<>>), FALSE)
  ELSE LET vals == SelectSeq(d.items, LAMBDA r : IsValue(Get(r, f)))
           sorted == SortAsc([i \in 1..Len(vals) |-> Coerced(vals[i][f])])
       IN IF vals = <<>> \/ method # "iqr" THEN Returned(d, Arr(<<>>), FALSE)
          ELSE Returned(d,
                        Arr(SelectSeq(vals,
                              LAMBDA r : isOutlier(Coerced(r[f]), sorted, k2))),
                        FALSE)

\* calculateFrequencyDistribution(data, field, bins) of utils/statistics.
\* A row of the result: a bin { min, max, count } or a category
\* { category, count }; of is the denominator of its frequency.
RequestedBins == {2, 10}        \* 10 is the default
Bin(lo, hi, n, of) == [min |-> lo, max |-> hi, count |-> n, of |-> of]
Category(c, n, of) == [category |-> c, count |-> n, of |-> of]
\* result.sort((a, b) => b.count - a.count)
RECURSIVE InsertByCount(_, _)
InsertByCount(x, s) ==
  IF s = <<>> THEN <<x>>
  ELSE IF Head(s).count >= x.count
       THEN <<Head(s)>> \o InsertByCount(x, Tail(s))
       ELSE <<x>> \o s
RECURSIVE SortByCount(_)
SortByCount(s) ==
  IF s = <<>> THEN <<>>
  ELSE InsertByCount(s[Len(s)], SortByCount(SubSeq(s, 1, Len(s) - 1)))
\* the values kept by v !== null && v !== undefined && !isNaN(v)
ValidValues(items, f) ==
  LET vals == SelectSeq(items, LAMBDA r : IsValue(Get(r, f)))
  IN [i \in 1..Len(vals) |-> Coerced(vals[i][f])]
\* The numeric branch declares `const bins` after the statement that reads
\* bins in .thresholds(bins): the read is in the temporal dead zone of the
\* inner bins and throws a ReferenceError; a build that compiles const to
\* var reads undefined instead, and d3 then makes one bin of the extent.
\* The parameter bins is read in neither case.
histogramOutcomes(d, values, bins) ==
  LET sorted == SortAsc(values)
      n == Len(values)
  IN { Thrown(d),
       Returned(d, Arr(<<Bin(sorted[1], sorted[n], n, n)>>), FALSE) }
\* d3.rollup(data, v => v.length, d => d[field]), sorted by count
categoryCounts(d, f) ==
  LET keys == GroupKeys(d.items, f)
      n == Len(d.items)
      rows == [i \in 1..Len(keys) |->
                 Category(keys[i],
                          Len(SelectSeq(d.items,
                                        LAMBDA r : Get(r, f) = keys[i])),
                          n)]
  IN Returned(d, Arr(SortByCount(rows)), FALSE)
frequencyOutcomes(d, f, bins) ==
  IF ~d.isArray \/ d.items = <<>> THEN {Returned(d, Arr(<<>>), FALSE)}
  ELSE IF IsNumber(Get(d.items[1], f))
       THEN IF ValidValues(d.items, f) = <<>>
            THEN {Returned(d, Arr(<<>>), FALSE)}
            ELSE histogramOutcomes(d, ValidValues(d.items, f), bins)
  ELSE {categoryCounts(d, f)}

\* one call on a fresh input
Methods == {"iqr", "other"}     \* 'other': a method name the code ignores
Thresholds2 == {0, 1, 3}        \* thresholds 0, 0.5 and 1.5, doubled
GroupFields == {FieldA, FieldCount}
NoCall == [op |-> "init", field |-> NoField, agg |-> NoField, fn |-> "sum",
           method |-> "iqr", k2 |-> 0, flags |-> <<FALSE, FALSE, FALSE>>,
           cond |-> NoCond, bins |-> 0]

DPOnly == UNCHANGED <<emVars, cfVars, chVars, tpVars, apVars, dvVars>>

\* what dpOut keeps of a call
Outcome(res) == [threw |-> res.threw, out |-> res.out, same |-> res.same]

\* process(data, { cleanData: c, detectOutliers: o, normalizeValues: n })
Process ==
  \E c, o, n \in BOOLEAN :
    LET res == process(dpData, c, o, n) IN
    /\ dpCall.op = "init"
    /\ dpCall' = [NoCall EXCEPT !.op = "process", !.flags = <<c, o, n>>]
    /\ dpData' = res.data
    /\ dpOut' = Outcome(res)
    /\ UNCHANGED dpBefore
    /\ DPOnly

\* cleanData(data)
CleanData ==
  LET res == cleanData(dpData) IN
  /\ dpCall.op = "init"
  /\ dpCall' = [NoCall EXCEPT !.op = "cleanData"]
  /\ dpData' = res.data
  /\ dpOut' = Outcome(res)
  /\ UNCHANGED dpBefore
  /\ DPOnly

\* handleOutliers(data, method, threshold)
HandleOutliers ==
  \E m \in Methods, k2 \in Thresholds2 :
    LET res == handleOutliers(dpData, m, k2) IN
    /\ dpCall.op = "init"
    /\ dpCall' = [NoCall EXCEPT !.op = "handleOutliers", !.method = m, !.k2 = k2]
    /\ dpData' = res.data
    /\ dpOut' = Outcome(res)
    /\ UNCHANGED dpBefore
    /\ DPOnly

\* normalizeValues(data)
NormalizeValues ==
  LET res == normalizeValues(dpData) IN
  /\ dpCall.op = "init"
  /\ dpCall' = [NoCall EXCEPT !.op = "normalizeValues"]
  /\ dpData' = res.data
  /\ dpOut' = Outcome(res)
  /\ UNCHANGED dpBefore
  /\ DPOnly

\* groupBy(data, field, aggregateField, aggregateFunction)
GroupBy ==
  \E f \in GroupFields, a \in GroupFields, fn \in AggFns :
    LET res == groupBy(dpData, f, a, fn) IN
    /\ dpCall.op = "init"
    /\ dpCall' = [NoCall EXCEPT !.op = "groupBy", !.field = f, !.agg = a, !.fn = fn]
    /\ dpData' = res.data
    /\ dpOut' = Outcome(res)
    /\ UNCHANGED dpBefore
    /\ DPOnly

\* filter(data, conditions)
Filter ==
  \E cond \in Conditions :
    LET res == filter(dpData, cond) IN
    /\ dpCall.op = "init"
    /\ dpCall' = [NoCall EXCEPT !.op = "filter", !.cond = cond]
    /\ dpData' = res.data
    /\ dpOut' = Outcome(res)
    /\ UNCHANGED dpBefore
    /\ DPOnly

\* sort(data, field, ascending)
Sort ==
  \E f \in GroupFields, asc \in BOOLEAN :
    \E res \in sortOutcomes(dpData, f, asc) :
      /\ dpCall.op = "init"
      /\ dpCall' = [NoCall EXCEPT !.op = "sort", !.field = f,
                              !.flags = <<asc, FALSE, FALSE>>]
      /\ dpData' = res.data
      /\ dpOut' = Outcome(res)
      /\ UNCHANGED dpBefore
      /\ DPOnly

\* calculateStatistics(data, field)
CalculateStatistics ==
  \E f \in {NoField, FieldA} :
    LET res == calculateStatistics(dpData, f) IN
    /\ dpCall.op = "init"
    /\ dpCall' = [NoCall EXCEPT !.op = "calculateStatistics", !.field = f]
    /\ dpData' = res.data
    /\ dpOut' = Outcome(res)
    /\ UNCHANGED dpBefore
    /\ DPOnly

\* getNumericFields(data)
GetNumericFields ==
  LET res == getNumericFields(dpData) IN
  /\ dpCall.op = "init"
  /\ dpCall' = [NoCall EXCEPT !.op = "getNumericFields"]
  /\ dpData' = res.data
  /\ dpOut' = Outcome(res)
  /\ UNCHANGED dpBefore
  /\ DPOnly

\* updateRandomValues(data, percentage)
UpdateRandomValues ==
  \E pct \in Percentages :
    \E res \in updateOutcomes(dpData, pct) :
      /\ dpCall.op = "init"
      /\ dpCall' = [NoCall EXCEPT !.op = "updateRandomValues", !.k2 = pct]
      /\ dpData' = res.data
      /\ dpOut' = Outcome(res)
      /\ UNCHANGED dpBefore
      /\ DPOnly

\* statistics.detectOutliers(data, 'a', method, threshold)
DetectOutliers ==
  \E m \in Methods, k2 \in Thresholds2 :
    LET res == detectOutliers(dpData, FieldA, m, k2) IN
    /\ dpCall.op = "init"
    /\ dpCall' = [NoCall EXCEPT !.op = "detectOutliers", !.field = FieldA,
                            !.method = m, !.k2 = k2]
    /\ dpData' = res.data
    /\ dpOut' = Outcome(res)
    /\ UNCHANGED dpBefore
    /\ DPOnly

\* calculateFrequencyDistribution(data, field, bins)
CalculateFrequencyDistribution ==
  \E f \in GroupFields, bins \in RequestedBins :
    \E res \in frequencyOutcomes(dpData, f, bins) :
      /\ dpCall.op = "init"
      /\ dpCall' = [NoCall EXCEPT !.op = "calculateFrequencyDistribution",
                              !.field = f, !.bins = bins]
      /\ dpData' = res.data
      /\ dpOut' = Outcome(res)
      /\ UNCHANGED dpBefore
      /\ DPOnly

NoOut == [threw |-> FALSE, out |-> NonArr("undefined"), same |-> FALSE]

IdleDP ==
  /\ dpData = Arr(<<>>)
  /\ dpBefore = Arr(<<>>)
  /\ dpCall = NoCall
  /\ dpOut = NoOut

NextDP ==
  \/ Process
  \/ CleanData
  \/ HandleOutliers
  \/ NormalizeValues
  \/ GroupBy
  \/ Filter
  \/ Sort
  \/ CalculateStatistics
  \/ GetNumericFields
  \/ UpdateRandomValues
  \/ DetectOutliers
  \/ CalculateFrequencyDistribution

----------------------------------------------------------------------------
(* Specifications                                                           *)

InitEM == IdleEM /\ IdleCF /\ IdleCh /\ IdleTp /\ IdleDP /\ IdleApp /\ IdleDv
InitCF == IdleEM /\ IdleCF /\ IdleCh /\ IdleTp /\ IdleDP /\ IdleApp /\ IdleDv
InitChart ==
  /\ IdleEM
  /\ IdleCF
  /\ IdleTp
  /\ IdleDP
  /\ IdleApp
  /\ IdleDv
  /\ \E k \in ChartKinds, given \in BOOLEAN, d \in Datasets,
        g \in GeneratedData, tip \in BOOLEAN, el \in BOOLEAN :
       /\ (tip = FALSE => k \in {"bar", "heatmap"})
       /\ (el = FALSE => k \in OwnKinds)
       /\ (~given => d = <<>>)
       /\ (k \notin {"heatmap", "realtime"} => g = FlatData)
       /\ chart = NewChart(k, given, d, g, tip)
       /\ page = NewPage(el)
       /\ chOp = NoChOp
       /\ viz = NewViz

InitTips ==
  /\ IdleEM /\ IdleCF /\ IdleCh /\ IdleDP /\ IdleApp /\ IdleDv
  /\ \E ks \in [Inst -> TipKinds], ds \in [Inst -> Datasets \ {<<>>}],
        ts \in [Inst -> BOOLEAN] :
       insts = [i \in Inst |-> NewChart(ks[i], TRUE, ds[i], FlatData, ts[i])]
  /\ pages = [i \in Inst |-> NewPage(TRUE)]
  /\ owned = [i \in Inst |-> 0]
  /\ tipOp = NoTipOp

InitDP ==
  /\ IdleEM /\ IdleCF /\ IdleCh /\ IdleTp /\ IdleApp /\ IdleDv
  /\ dpData \in DPInputs
  /\ dpBefore = dpData
  /\ dpCall = NoCall
  /\ dpOut = NoOut

InitViz ==
  /\ IdleEM /\ IdleCF /\ IdleTp /\ IdleDP /\ IdleApp
  /\ \E k \in VizKinds, d \in Datasets :
       chart = NewChart(k, TRUE, d, FlatData, TRUE)
  /\ page = NewPage(TRUE)
  /\ chOp = NoChOp
  /\ viz = NewViz
  /\ \E bus \in BOOLEAN, responsive \in BOOLEAN : dv = NewDv(bus, responsive)

SpecEM == InitEM /\ [][NextEM]_vars
SpecEmit == InitEM /\ [][NextEmit]_vars
SpecCF == InitCF /\ [][NextCF]_vars
SpecChart == InitChart /\ [][NextChart]_vars
SpecTips == InitTips /\ [][NextTips]_vars
SpecDP == InitDP /\ [][NextDP]_vars
SpecApp == InitCF /\ [][NextApp]_vars
SpecViz == InitViz /\ [][NextViz]_vars

----------------------------------------------------------------------------
(* Properties of the Event Bus                                              *)

Bucket(ev, n) == IF n \in DOMAIN ev THEN ev[n] ELSE <<>>
TopCalls(cs) == SelectSeq(cs, LAMBDA c : c.depth = 0)
Throws(l) == Behaviour[l.cb] = "throw"

\* s is t with some elements deleted, the others in the same order
RECURSIVE IsSubSeq(_, _)
IsSubSeq(s, t) ==
  IF Len(s) = 0 THEN TRUE
  ELSE IF Len(t) = 0 THEN FALSE
  ELSE IF Head(s) = Head(t) THEN IsSubSeq(Tail(s), Tail(t))
  ELSE IsSubSeq(s, Tail(t))

\* the name is `${p}:` followed by anything
UnderPrefix(n, p) ==
  \E k \in 0..Len(n) : n = p \o <<":">> \o SubSeq(n, Len(n) - k + 1, Len(n))

C2_ThrowIsolated ==
  [][ lastOp'.op = "emit" =>
        LET reg == Bucket(events, lastOp'.name)
            top == TopCalls(calls')
        IN  /\ ~lastOp'.threw
            /\ \A i, j \in 1..Len(reg) :
                 (i < j /\ Throws(reg[i])) => (Len(top) >= j /\ top[j].fn = reg[j])
    ]_vars

\* an emit whose first listener threw and whose second listener ran
C2_Witness ==
  /\ lastOp.op = "emit"
  /\ Len(TopCalls(calls)) >= 2
  /\ Throws(TopCalls(calls)[1].fn)
  /\ ~Throws(TopCalls(calls)[2].fn)

Registered(ev, l) == \E n \in DOMAIN ev : \E i \in 1..Len(ev[n]) : ev[n][i] = l

\* how often listener l was invoked by the last operation
TimesCalled(l) == Cardinality({ i \in 1..Len(calls) : calls[i].fn = l })

(* C3: a once() callback is invoked at most once and is no longer          *)
(* registered after its first invocation: an emit invokes a once() wrapper *)
(* at most once, and a wrapper it invoked is not registered afterwards (so *)
(* that no later emit can invoke it again), whatever the callback does.    *)
C3_OnceAtMostOnce ==
  \A l \in Listeners :
    l.once > 0 =>
      /\ TimesCalled(l) <= 1
      /\ TimesCalled(l) >= 1 => ~Registered(events, l)

(* C4: the unsubscribe closure of one on(e, cb) removes exactly one        *)
(* registration: listenerCount(e) drops by 1, nothing else changes.        *)
C4_UnsubscribeRemovesOne ==
  [][ lastOp'.op = "unsubscribe" =>
        /\ listenerCount(events', lastOp'.name) = listenerCount(events, lastOp'.name) - 1
        /\ \A m \in AllNames \ {lastOp'.name} : Bucket(events', m) = Bucket(events, m)
    ]_vars

C6_NamespaceRemoveAll ==
  [][ (lastOp'.op = "nsRemoveAll" /\ lastOp'.arg = 0) =>
        \A n \in AllNames :
          IF UnderPrefix(n, lastOp'.name)
          THEN listenerCount(events', n) = 0
          ELSE Bucket(events', n) = Bucket(events, n)
    ]_vars

\* namespace('p').removeAllListeners() removed 'p:x' and left 'pq:x'
C6_Witness ==
  /\ lastOp.op = "nsRemoveAll" /\ lastOp.arg = 0 /\ lastOp.name = <<"p">>
  /\ lastOp.removed >= 1
  /\ <<"p", ":", "x">> \notin eventNames(events)
  /\ <<"p", "q", ":", "x">> \in eventNames(events)

----------------------------------------------------------------------------
(* Properties of the Chart Registry                                         *)

\* the class of the last register(t, ...) not followed by unregister(t)
RECURSIVE LastRegistered(_, _)
LastRegistered(log, t) ==
  IF Len(log) = 0 THEN NoCtor
  ELSE LET e == log[Len(log)]
       IN  IF e.type = t
           THEN (IF e.op = "register" THEN e.class ELSE NoCtor)
           ELSE LastRegistered(SubSeq(log, 1, Len(log) - 1), t)

----------------------------------------------------------------------------
(* Properties of the chart lifecycle                                        *)

\* what is on screen: the layer groups show only while they are attached
Visual(p) ==
  [root |-> p.root,
   grp |-> IF p.attached THEN p.grp ELSE 0,
   axis |-> IF p.attached THEN p.axis ELSE 0,
   body |-> p.body,
   own |-> p.own]

NothingAdded(p, q) ==
  /\ Visual(q).root <= Visual(p).root
  /\ Visual(q).grp <= Visual(p).grp
  /\ Visual(q).axis <= Visual(p).axis
  /\ Visual(q).body <= Visual(p).body
  /\ Visual(q).own <= Visual(p).own

C9_DestroyedIsTerminal ==
  [][(chart.destroyed /\ chOp'.op \in {"render", "vizRender", "update", "resize"})
       => (NothingAdded(page, page') /\ page'.intervals = {})]_vars

(* C10: a render that directly follows a render of the same chart (both    *)
(* returning normally) leaves exactly the elements the first one left, in  *)
(* the drawing surface and in the document body.                            *)
C10_RenderIdempotent ==
  [][(/\ chOp'.op \in {"render", "vizRender"}
      /\ chOp'.again
      /\ ~chOp.threw
      /\ ~chOp'.threw)
       => Visual(page') = Visual(page)]_vars

\* the surface the chart draws on is there: the container the visualizer
\* hands over, or the element options.container selects
HasSurface(c, p) == IF c.kind \in D3Kinds THEN c.container ELSE p.el

(* C11: a render of a chart whose dataset is empty, on a surface that is   *)
(* there, returns without throwing, adds the 'no data' placeholder (for    *)
(* the charts that draw into the visualizer's groups) and leaves no data   *)
(* mark in dataGroup.                                                       *)
C11_EmptyDataPlaceholder ==
  [][(/\ chOp'.op \in {"render", "vizRender"}
      /\ Len(chart'.data) = 0
      /\ HasSurface(chart', page'))
       => /\ ~chOp'.threw
          /\ chart'.kind \in D3Kinds =>
                (page'.root = page.root + 1 /\ page'.grp = 0)]_vars

(* C12: update(D2) leaves D2 as the only dataset of the chart: this.data   *)
(* is D2, the series a RealTimeChart draws from is D2, and the marks a     *)
(* re-rendering update leaves in dataGroup are those of D2.                 *)
C12_UpdateReplacesDataset ==
  [][chOp'.op = "update"
       => /\ chart'.data = chOp'.arg
          /\ chart'.kind = "realtime" => chart'.mock = chOp'.arg
          /\ (chart'.kind \in {"bar", "heatmap"} /\ chart'.container)
                => page'.grp = Len(chOp'.arg)]_vars

(* C13: a visualizer.render or visualizer.update that throws leaves         *)
(* currentChart, currentData and everything drawn as they were before the  *)
(* call.                                                                    *)
C13_FailedOpKeepsState ==
  [][(chOp'.op \in {"vizRender", "vizRenderNull", "vizUpdate"} /\ chOp'.threw)
       => (viz' = viz /\ Visual(page') = Visual(page))]_vars

(* C14: destroy() of one instance removes every body-level tooltip node    *)
(* that instance created and no node another instance created.              *)
C14_DestroyOwnTooltipsOnly ==
  [][tipOp'.op = "destroy"
       => /\ owned'[tipOp'.inst] = 0
          /\ \A j \in Inst \ {tipOp'.inst} : owned'[j] = owned[j]]_vars

----------------------------------------------------------------------------
(* Properties of the DataProcessor                                          *)

Stages == {"process", "cleanData", "handleOutliers", "normalizeValues",
           "groupBy", "filter", "sort"}
ProcessorMethods ==
  Stages \cup {"calculateStatistics", "getNumericFields", "updateRandomValues"}
Called(op) == dpCall.op = op /\ dpBefore.isArray
\* the fields that hold a number in at least one record
NumericSomewhere(items) ==
  { f \in UNION { DOMAIN items[i] : i \in 1..Len(items) } :
      \E i \in 1..Len(items) : IsNumber(Get(items[i], f)) }

(* C15: after process or any single stage was called on an array, the      *)
(* array and every record in it hold what they held before the call.       *)
C15_InputNotMutated ==
  (dpCall.op \in Stages /\ dpBefore.isArray) => dpData = dpBefore

(* C16: every DataProcessor method called with something that is not an    *)
(* array throws.                                                            *)
C16_NonArrayThrows ==
  (dpCall.op \in ProcessorMethods /\ ~dpBefore.isArray) => dpOut.threw

(* C17: the rows groupBy returns carry pairwise distinct key values, each   *)
(* row's count is the number (at least 1) of input records with the row's  *)
(* key, and the counts add up to the number of input records.              *)
C17_GroupByPartitions ==
  Called("groupBy") =>
    LET rows == dpOut.out.items
        D == dpBefore.items
        f == dpCall.field
        With(k) == SelectSeq(D, LAMBDA r : Get(r, f) = k)
    IN /\ \A i, j \in 1..Len(rows) :
            Get(rows[i], f) = Get(rows[j], f) => i = j
       /\ \A i \in 1..Len(rows) :
            /\ Len(With(Get(rows[i], f))) >= 1
            /\ Get(rows[i], FieldCount) = Num(Len(With(Get(rows[i], f))))
       /\ SumField(rows, FieldCount) = Len(D)

(* C18: handleOutliers gives every record a boolean flag f_isOutlier for   *)
(* every field f that holds a number in that record (f being any field    *)
(* that holds a number in some record), and leaves every original field   *)
(* as it was.                                                               *)
C18_FlagsEveryNumericField ==
  Called("handleOutliers") =>
    LET D == dpBefore.items
        R == dpOut.out.items
    IN /\ Len(R) = Len(D)
       /\ \A i \in 1..Len(D) :
            /\ \A f \in NumericSomewhere(D) :
                 IsNumber(Get(D[i], f)) => Get(R[i], OutlierOf(f)).t = "bool"
            /\ \A f \in DOMAIN D[i] : Get(R[i], f) = D[i][f]

(* C19: calculateStatistics without a field returns, without throwing, a   *)
(* summary with count >= 1 for every field that holds a number in some     *)
(* record.                                                                  *)
C19_StatisticsForEveryNumericField ==
  (Called("calculateStatistics") /\ dpCall.field = NoField) =>
    /\ ~dpOut.threw
    /\ \A f \in NumericSomewhere(dpBefore.items) :
         /\ f \in DOMAIN dpOut.out.stats
         /\ dpOut.out.stats[f].count >= 1

\* the numbers of field a, and whether v lies within the IQR bounds
NumbersOfA == SortAsc(ColumnValues(dpBefore.items, FieldA))
Within(v, sorted, k2) ==
  /\ LowerBound8(sorted, k2) <= 8 * v
  /\ 8 * v <= UpperBound8(sorted, k2)
AllNumbers(items) == \A i \in 1..Len(items) : IsNumber(Get(items[i], FieldA))

(* C20: with the IQR method a value is flagged exactly when it lies        *)
(* strictly outside [Q1 - k*IQR, Q3 + k*IQR]: handleOutliers sets the flag *)
(* it writes to that, detectOutliers returns the records with such values, *)
(* and for <<1, 2, 3, 4, 100>> with k = 1.5 only 100 is flagged.            *)
C20_IqrStrictBounds ==
  /\ (Called("handleOutliers") /\ dpCall.method = "iqr") =>
       \A i \in 1..Len(dpOut.out.items) :
         LET r == dpOut.out.items[i] IN
         (IsNumber(Get(r, FieldA)) /\ OutlierOf(FieldA) \in DOMAIN r) =>
            r[OutlierOf(FieldA)] = Bool(~Within(r[FieldA].v, NumbersOfA, dpCall.k2))
  /\ (Called("detectOutliers") /\ dpCall.method = "iqr"
        /\ AllNumbers(dpBefore.items)) =>
       dpOut.out.items =
         SelectSeq(dpBefore.items,
                   LAMBDA r : ~Within(r[FieldA].v, NumbersOfA, dpCall.k2))
  /\ (dpCall.op \in {"handleOutliers", "detectOutliers"}
        /\ dpCall.method = "iqr" /\ dpCall.k2 = 3
        /\ dpBefore = Arr(ValueData(Scenario))) =>
       LET flagged ==
             IF dpCall.op = "detectOutliers" THEN dpOut.out.items
             ELSE SelectSeq(dpOut.out.items,
                            LAMBDA r : Get(r, OutlierOf(FieldA)) = Bool(TRUE))
       IN [i \in 1..Len(flagged) |-> flagged[i][FieldA].v] = <<100>>

C20_Witness ==
  /\ dpCall.op = "handleOutliers"
  /\ dpCall.method = "iqr"
  /\ dpCall.k2 = 3
  /\ dpBefore = Arr(ValueData(AtBound))
  /\ Get(dpOut.out.items[5], OutlierOf(FieldA)) = Bool(FALSE)
  /\ 8 * 7 = UpperBound8(NumbersOfA, 3)

\* what a record has to do to satisfy one condition: be a member of an
\* array, lie within the bounds a range object gives (a bound left out
\* asks nothing), be strictly equal to any other value
Satisfies(r, e) ==
  LET itemValue == Get(r, e.field) IN
  IF e.kind = "array" THEN itemValue \in e.of
  ELSE IF e.kind = "object"
       THEN /\ (e.min # Undef => AtLeast(itemValue, e.min))
            /\ (e.max # Undef => AtMost(itemValue, e.max))
  ELSE itemValue = e.value
SatisfiesAll(r, conds) == \A i \in 1..Len(conds) : Satisfies(r, conds[i])

(* C21: filter returns, in input order, exactly the records that satisfy   *)
(* every condition: membership for an array, inclusive bounds for a         *)
(* { min, max } object of which either bound or both may be absent, strict  *)
(* equality for any other value.                                            *)
C21_FilterKeepsExactlyMatching ==
  Called("filter") =>
    /\ ~dpOut.threw
    /\ dpOut.out.isArray
    /\ dpOut.out.items =
         SelectSeq(dpBefore.items, LAMBDA r : SatisfiesAll(r, dpCall.cond))

\* the records of items whose field f holds c, in the order of items
WithValue(items, f, c) == SelectSeq(items, LAMBDA r : Get(r, f) = c)
\* no record of s stands after a record it should precede
Ordered(s, f, asc) ==
  \A i, j \in 1..Len(s) : i < j => ~Before(s[j], s[i], f, asc)

(* C22: sort returns a new array that is a permutation of the input,       *)
(* ordered by the field in the direction asked for, in which records with  *)
(* equal field values keep their input order; the input keeps its order.   *)
C22_SortStablePermutation ==
  Called("sort") =>
    LET f == dpCall.field
        asc == dpCall.flags[1]
        out == dpOut.out.items
    IN /\ ~dpOut.threw
       /\ ~dpOut.same
       /\ out \in Orderings(dpBefore.items)
       /\ Ordered(out, f, asc)
       /\ \A i \in 1..Len(out) :
            WithValue(out, f, Get(out[i], f))
              = WithValue(dpBefore.items, f, Get(out[i], f))
       /\ dpData = dpBefore

\* the field holds a number in every record
NumericField(items, f) ==
  \A i \in 1..Len(items) : IsNumber(Get(items[i], f))

(* C23: for a non-empty dataset whose field is numeric,                     *)
(* calculateFrequencyDistribution returns bins that span the extent of the  *)
(* values from its minimum to its maximum, more than one bin when more      *)
(* than one was requested and the extent is not a single point, and bin     *)
(* counts that add up to the number of values.                              *)
C23_HistogramOverExtent ==
  ( /\ Called("calculateFrequencyDistribution")
    /\ dpBefore.items # <<>>
    /\ NumericField(dpBefore.items, dpCall.field) ) =>
    LET values == SortAsc(ValidValues(dpBefore.items, dpCall.field))
        rows == dpOut.out.items
    IN /\ ~dpOut.threw
       /\ rows # <<>>
       /\ rows[1].min = values[1]
       /\ rows[Len(rows)].max = values[Len(values)]
       /\ (dpCall.bins > 1 /\ values[1] < values[Len(values)])
            => Len(rows) > 1
       /\ SumOver([i \in 1..Len(rows) |-> rows[i].count], 1..Len(rows))
            = Len(values)

(* C25: whatever renders, ticks and destroys a RealTimeChart has gone       *)
(* through, at most one interval it armed is active, and an active one is  *)
(* the interval this.timer holds.                                           *)
C25_AtMostOneInterval ==
  chart.kind = "realtime" =>
    /\ Cardinality(page.intervals) <= 1
    /\ page.intervals # {} => page.intervals = {chart.timer}

\* a tick has rendered again: the interval of the first render is gone and
\* the one armed from inside the tick is the only one
C25_Witness ==
  /\ chart.kind = "realtime"
  /\ chOp.op = "tick" /\ ~chOp.threw
  /\ page.nextTimer >= 2
  /\ page.intervals = {page.nextTimer}
  /\ chart.timer = page.nextTimer

(* C26: every timer tick of a RealTimeChart returns normally and leaves    *)
(* the buffer as long as it was: the oldest point is dropped and one point *)
(* is appended whose time is the previous last time plus one.              *)
C26_TickKeepsBufferLength ==
  [][ (chart.kind = "realtime" /\ chOp'.op = "tick") =>
        /\ ~chOp'.threw
        /\ Len(chart'.mock) = Len(chart.mock)
        /\ SubSeq(chart'.mock, 1, Len(chart.mock) - 1) = Tail(chart.mock)
        /\ chart'.mock[Len(chart.mock)].time
             = chart.mock[Len(chart.mock)].time + 1 ]_vars

(* C27: emit(e) invokes the listeners that were registered for e when it   *)
(* started, each once and in order: a listener removed by an earlier        *)
(* callback of the same emit is still invoked, and a listener added during  *)
(* the emit is not invoked before the next emit(e).                         *)
C27_EmitUsesListenersAtStart ==
  [][ lastOp'.op = "emit" =>
        LET atStart == Bucket(events, lastOp'.name)
            invoked == [i \in 1..Len(calls') |-> calls'[i].fn]
        IN invoked = atStart ]_vars

\* emit('x') on <<cb4, cb1>>: cb4 has removed cb1, and cb1 has been invoked
C27_Witness ==
  /\ lastOp.op = "emit" /\ lastOp.name = ReEvent
  /\ Len(calls) = 2
  /\ calls[1].fn = Fn("cb4") /\ calls[2].fn = Fn("cb1")
  /\ Bucket(events, ReEvent) = <<Fn("cb4")>>

\* emit('x') on <<cb5>>: cb5 has added cb1, and cb1 has not been invoked
C27_AddedNotInvoked ==
  /\ lastOp.op = "emit" /\ lastOp.name = ReEvent
  /\ Len(calls) = 1 /\ calls[1].fn = Fn("cb5")
  /\ Bucket(events, ReEvent) = <<Fn("cb5"), Fn("cb1")>>

----------------------------------------------------------------------------
(* Properties of the application start-up                                   *)

(* C24: at start-up the initial chart is created only after its type was   *)
(* registered: however the import callbacks interleave with                 *)
(* initializeApp(), ChartFactory.create('bar') does not throw and the       *)
(* callback registering 'bar' has run before it.                            *)
C24_InitialTypeRegisteredFirst ==
  /\ app.pc # "failed"
  /\ app.pc = "done" => app.imports[InitialType] = "done"

----------------------------------------------------------------------------
(* Properties of the DataVisualizer with its Event Bus                      *)

\* the event a call of the visualizer announces
EventOf(op) ==
  CASE op = "render" -> ChartRendered
    [] op = "update" -> ChartUpdated
    [] OTHER -> ChartResized
VizCalls == {"render", "update", "resize", "observer"}

(* C28: a render, update or resize call of a visualizer that has an event  *)
(* manager emits exactly one event, 'chart:rendered', 'chart:updated' or   *)
(* 'chart:resized', when it returns normally, and emits it after the       *)
(* chart's own method has returned; a call that throws emits none.          *)
C28_OneEventPerNormalCall ==
  (dv.bus /\ dv.op \in VizCalls) =>
    IF dv.threw THEN Emitted(dv.trace) = <<>>
    ELSE /\ Emitted(dv.trace) = <<EmitStep(EventOf(dv.op))>>
         /\ dv.trace[Len(dv.trace)].step = "emit"

\* render(chart) returned: the chart rendered, then 'chart:rendered' was
\* emitted to a listener
C28_Witness ==
  /\ dv.bus /\ dv.op = "render" /\ ~dv.threw
  /\ dv.trace = <<ChartStep, EmitStep(ChartRendered)>>
  /\ Len(calls) > 0

(* C29: after destroy(), a resize notification of the ResizeObserver, or a *)
(* later resize(w, h) call, does not throw and leaves the visualizer as it *)
(* was.                                                                     *)
C29_ResizeAfterDestroyHarmless ==
  [][ (~dv.svg /\ dv'.op \in {"resize", "observer"} /\ dv' # dv) =>
        /\ ~dv'.threw
        /\ dv'.width = dv.width ]_vars

(* C30: after destroy() of a visualizer that was given an event manager,   *)
(* the event manager holds no listener for any event name, whoever          *)
(* registered it; this is so after a second destroy() too.                  *)
C30_DestroyClearsSharedBus ==
  (dv.bus /\ dv.op = "destroy") => events = << >>

\* destroy() removed a listener that another component had registered for
\* 'x' as well as one for 'chart:rendered'
C30_Witness ==
  /\ dv.bus /\ dv.op = "destroy"
  /\ events = << >>
  /\ dv.trace = <<RemoveStep({ReEvent, ChartRendered})>>

====
